---- MODULE Spec2Model ----
(***************************************************************************)
(* Model of the speedKG ingestion pipeline: the SPEED CSV parser           *)
(* (src/src/ingestion/csv_parser.py), the two-pass Neo4j loader with its   *)
(* retry wrapper (src/src/ingestion/neo4j_loader.py) and the CAMEO         *)
(* ontology materialization.                                               *)
(*                                                                         *)
(* The graph store is an external collaborator.  It is modelled by the     *)
(* meaning of the Cypher statements the loader issues: CREATE appends a    *)
(* node, MERGE is get-or-create, ON CREATE SET writes only on creation,    *)
(* a uniqueness constraint makes a CREATE of an existing key raise, a      *)
(* statement that raises has no effect and leaves the enclosing            *)
(* transaction usable (this is what the per-Event try/except of            *)
(* _load_event_batch relies on), and commit publishes the writes of the    *)
(* transaction.                                                            *)
(***************************************************************************)
EXTENDS Integers, Sequences, FiniteSets, TLC

(***************************************************************************)
(* Bounds of the model.                                                    *)
(***************************************************************************)
MaxRows == 3
MaxBatchSize == 2
MaxStmtFaults == 1
MaxOntologyRuns == 2
MaxEventTypes == 2

(***************************************************************************)
(* Python values.  A str is a sequence of one-character strings.  An       *)
(* Optional[T] is None or Some(x).                                         *)
(***************************************************************************)
None == <<>>
Some(x) == <<x>>
Val(o) == o[1]

S1(a) == <<a>>
S2(a, b) == <<a, b>>
S3(a, b, c) == <<a, b, c>>
S4(a, b, c, d) == <<a, b, c, d>>

\* str.lower() on one character
LowerChar(c) ==
    CASE c = "A" -> "a" [] c = "B" -> "b" [] c = "C" -> "c" [] c = "D" -> "d"
      [] c = "E" -> "e" [] c = "L" -> "l" [] c = "N" -> "n" [] c = "P" -> "p"
      [] c = "Q" -> "q" [] c = "U" -> "u" [] c = "X" -> "x" [] c = "Y" -> "y"
      [] OTHER -> c

\* str.lower()
Lower(s) == [i \in 1..Len(s) |-> LowerChar(s[i])]

IsSpace(c) == c = " "

RECURSIVE LStrip(_)
LStrip(s) == IF s # <<>> /\ IsSpace(Head(s)) THEN LStrip(Tail(s)) ELSE s

RECURSIVE RStrip(_)
RStrip(s) ==
    IF s # <<>> /\ IsSpace(s[Len(s)]) THEN RStrip(SubSeq(s, 1, Len(s) - 1)) ELSE s

\* str.strip()
Strip(s) == RStrip(LStrip(s))

\* truthiness of an Optional[str]: None and "" are falsy
TruthyStr(o) == o # None /\ Val(o) # <<>>

\* truthiness of an Optional[int]: None and 0 are falsy
TruthyInt(o) == o # None /\ Val(o) # 0

\* a or b  on Optional[str]
OrStr(a, b) == IF TruthyStr(a) THEN a ELSE b

(***************************************************************************)
(* Reading the CSV.  pd.read_csv turns a cell whose text is one of         *)
(* na_values (MISSING_VALUES) or one of the pandas default NA strings      *)
(* into NaN; every other cell keeps its text.                              *)
(***************************************************************************)
\* MISSING_VALUES without the "." sentinel
MISSING_VALUES_NoDot == { <<>>, S3("n", "a", "n"), S3("N", "a", "N") }

\* SPEEDCSVParser.MISSING_VALUES, passed to read_csv as na_values
MISSING_VALUES == { <<>>, S1("."), S3("n", "a", "n"), S3("N", "a", "N") }

PandasDefaultNA == { <<>>, S3("n", "a", "n"), S3("N", "a", "N"),
                     S4("n", "u", "l", "l"), S4("N", "U", "L", "L") }

IsNA(cell) == cell \in MISSING_VALUES \cup PandasDefaultNA

\* _safe_get: None for a missing value, else the stripped text
_safe_get(row, field) ==
    IF field \notin DOMAIN row THEN None
    ELSE IF IsNA(row[field]) \/ row[field] \in MISSING_VALUES THEN None
    ELSE Some(Strip(row[field]))

Digits == { "0", "1", "2", "3", "4", "5", "6", "7", "8", "9" }

DigitVal(c) ==
    CASE c = "0" -> 0 [] c = "1" -> 1 [] c = "2" -> 2 [] c = "3" -> 3
      [] c = "4" -> 4 [] c = "5" -> 5 [] c = "6" -> 6 [] c = "7" -> 7
      [] c = "8" -> 8 [] OTHER -> 9

RECURSIVE DecVal(_)
DecVal(s) == IF s = <<>> THEN 0 ELSE 10 * DecVal(SubSeq(s, 1, Len(s) - 1)) + DigitVal(s[Len(s)])

AllDigits(s) == \A i \in 1..Len(s) : s[i] \in Digits

DotPos(s) == { i \in 1..Len(s) : s[i] = "." }

\* int(float(value)) for the unsigned decimal texts "d+", "d+.d*" ; any
\* other text raises ValueError inside _safe_int, which returns None
IntOfFloatText(s) ==
    IF s # <<>> /\ AllDigits(s) THEN Some(DecVal(s))
    ELSE IF Cardinality(DotPos(s)) = 1
         THEN LET p == CHOOSE i \in DotPos(s) : TRUE
                  ip == SubSeq(s, 1, p - 1)
                  fp == SubSeq(s, p + 1, Len(s))
              IN IF ip # <<>> /\ AllDigits(ip) /\ AllDigits(fp)
                 THEN Some(DecVal(ip)) ELSE None
         ELSE None

\* _safe_int
_safe_int(row, field) ==
    LET value == _safe_get(row, field)
    IN IF value = None THEN None ELSE IntOfFloatText(Val(value))

RECURSIVE DropTrailingZeros(_)
DropTrailingZeros(s) ==
    IF s # <<>> /\ s[Len(s)] = "0" THEN DropTrailingZeros(SubSeq(s, 1, Len(s) - 1)) ELSE s

\* float(value) for the same texts: <<integer part, fraction digits>>, so
\* that "1" and "1.0" are the same float
FloatOfText(s) ==
    IF s # <<>> /\ AllDigits(s) THEN Some(<<DecVal(s), <<>>>>)
    ELSE IF Cardinality(DotPos(s)) = 1
         THEN LET p == CHOOSE i \in DotPos(s) : TRUE
                  ip == SubSeq(s, 1, p - 1)
                  fp == SubSeq(s, p + 1, Len(s))
              IN IF ip # <<>> /\ AllDigits(ip) /\ AllDigits(fp)
                 THEN Some(<<DecVal(ip), DropTrailingZeros(fp)>>) ELSE None
         ELSE None

\* _safe_float
_safe_float(row, field) ==
    LET value == _safe_get(row, field)
    IN IF value = None THEN None ELSE FloatOfText(Val(value))

(***************************************************************************)
(* Domain objects built by the parser (src/src/domain/events.py).          *)
(***************************************************************************)
\* Actor.primary_name
primary_name(actor) ==
    OrStr(actor.political_group, OrStr(actor.sector_group, actor.identity_group))

\* Actor.is_government
is_government(actor) ==
    actor.government_type # None /\ Val(actor.government_type) > 0

\* Actor.is_human
is_human(actor) == actor.human_indicator = Some(1)

RoleOfPrefix(prefix) ==
    CASE prefix = "INI" -> "initiator" [] prefix = "TAR" -> "target" [] OTHER -> "victim"

\* the column names _parse_actor builds with f-strings
ActorColumn(prefix, suffix) ==
    CASE prefix = "INI" /\ suffix = "IGRP1" -> "INI_IGRP1"
      [] prefix = "INI" /\ suffix = "SGRP1" -> "INI_SGRP1"
      [] prefix = "INI" /\ suffix = "PGRP1" -> "INI_PGRP1"
      [] prefix = "INI" /\ suffix = "TYPE" -> "INI_TYPE"
      [] prefix = "INI" /\ suffix = "GOV" -> "GOV_I1"
      [] prefix = "INI" /\ suffix = "G_LVL" -> "G_LVL_I"
      [] prefix = "INI" /\ suffix = "NGOV" -> "NGOV_I1"
      [] prefix = "TAR" /\ suffix = "IGRP1" -> "TAR_IGRP1"
      [] prefix = "TAR" /\ suffix = "SGRP1" -> "TAR_SGRP1"
      [] prefix = "TAR" /\ suffix = "PGRP1" -> "TAR_PGRP1"
      [] prefix = "TAR" /\ suffix = "TYPE" -> "TAR_TYPE"
      [] prefix = "TAR" /\ suffix = "GOV" -> "GOV_T1"
      [] prefix = "TAR" /\ suffix = "G_LVL" -> "G_LVL_T"
      [] prefix = "TAR" /\ suffix = "NGOV" -> "NGOV_T1"
      [] prefix = "VIC" /\ suffix = "IGRP1" -> "VIC_IGRP1"
      [] prefix = "VIC" /\ suffix = "SGRP1" -> "VIC_SGRP1"
      [] prefix = "VIC" /\ suffix = "PGRP1" -> "VIC_PGRP1"
      [] prefix = "VIC" /\ suffix = "TYPE" -> "VIC_TYPE"
      [] prefix = "VIC" /\ suffix = "GOV" -> "GOV_V1"
      [] prefix = "VIC" /\ suffix = "G_LVL" -> "G_LVL_V"
      [] OTHER -> "NGOV_V1"

\* _parse_actor: None unless one of the three group names is present
_parse_actor(row, prefix) ==
    LET igrp == _safe_get(row, ActorColumn(prefix, "IGRP1"))
        sgrp == _safe_get(row, ActorColumn(prefix, "SGRP1"))
        pgrp == _safe_get(row, ActorColumn(prefix, "PGRP1"))
    IN IF ~(TruthyStr(igrp) \/ TruthyStr(sgrp) \/ TruthyStr(pgrp)) THEN None
       ELSE Some([ role |-> RoleOfPrefix(prefix),
                   identity_group |-> igrp,
                   sector_group |-> sgrp,
                   political_group |-> pgrp,
                   actor_type |-> _safe_int(row, ActorColumn(prefix, "TYPE")),
                   government_type |-> _safe_int(row, ActorColumn(prefix, "GOV")),
                   government_level |-> _safe_int(row, ActorColumn(prefix, "G_LVL")),
                   non_gov_type |-> _safe_int(row, ActorColumn(prefix, "NGOV")),
                   num_participants |->
                       IF prefix = "INI" THEN _safe_int(row, "N_OF_INI_P") ELSE None,
                   human_indicator |->
                       IF prefix = "TAR" THEN _safe_int(row, "HUMAN_T1")
                       ELSE IF prefix = "VIC" THEN _safe_int(row, "HUMAN_V1")
                       ELSE None ])

\* _parse_location: None unless GP3 or country is present
_parse_location(row) ==
    LET gp3 == _safe_get(row, "GP3")
        country == _safe_get(row, "country")
    IN IF ~TruthyStr(gp3) /\ ~TruthyStr(country) THEN None
       ELSE Some([ name |-> gp3,
                   country |-> country,
                   latitude |-> _safe_float(row, "GP7"),
                   longitude |-> _safe_float(row, "GP8"),
                   location_type |-> _safe_int(row, "LOC_TYPE"),
                   region |-> _safe_int(row, "region") ])

\* _extract_properties: the sparse fields kept as strings and the numeric
\* fields kept as integers; a key is in the dict iff its value is not None.
\* FROM_EID and TO_EID are in neither list.
_extract_properties(row) ==
    [ weapon |-> _safe_get(row, "weapon"),
      N_INJURD |-> _safe_int(row, "N_INJURD") ]

\* truthiness of the properties dict
TruthyProps(props) == props.weapon # None \/ props.N_INJURD # None

\* _parse_row: None when the identifier is missing, else the Event
_parse_row(row) ==
    LET event_id == _safe_get(row, "eventid")
        is_linked == _safe_int(row, "linked") = Some(1)
        from_eid == _safe_get(row, "FROM_EID")
        to_eid == _safe_get(row, "TO_EID")
    IN IF ~TruthyStr(event_id) THEN None
       ELSE Some([ event_id |-> Val(event_id),
                   year |-> _safe_int(row, "year"),
                   event_type |-> _safe_int(row, "EV_TYPE"),
                   initiator |-> _parse_actor(row, "INI"),
                   target |-> _parse_actor(row, "TAR"),
                   victim |-> _parse_actor(row, "VIC"),
                   location |-> _parse_location(row),
                   is_linked |-> is_linked,
                   link_type |-> _safe_int(row, "LINK_TYPE"),
                   linked_from |->
                       IF is_linked /\ TruthyStr(from_eid) THEN <<Val(from_eid)>> ELSE <<>>,
                   linked_to |->
                       IF is_linked /\ TruthyStr(to_eid) THEN <<Val(to_eid)>> ELSE <<>>,
                   properties |-> _extract_properties(row) ])

(***************************************************************************)
(* Identifiers (src/src/domain/actors.py, Neo4jLoader._generate_location_id)*)
(* hashlib.md5(...).hexdigest()[:12].upper() is kept as a tagged value of  *)
(* the hashed text: equal texts give equal digests.                        *)
(***************************************************************************)
Md5Hex12(text) == <<"md5", text>>

\* generate_actor_id that forgets .lower()
generate_actor_id_NoLower(actor_name) ==
    IF actor_name = <<>> THEN <<"ACTOR_UNKNOWN">>
    ELSE <<"ACTOR_", Md5Hex12(Strip(actor_name))>>

\* generate_actor_id
generate_actor_id(actor_name) ==
    IF actor_name = <<>> THEN <<"ACTOR_UNKNOWN">>
    ELSE LET normalized == Strip(Lower(actor_name))
         IN <<"ACTOR_", Md5Hex12(normalized)>>

\* _generate_location_id: f"{name}_{lat}_{lon}".lower()
_generate_location_id(name, lat, lon) ==
    <<"LOC_", Md5Hex12(<<Lower(name), lat, lon>>)>>

(***************************************************************************)
(* The graph store: nodes per label in creation order, relationships in    *)
(* creation order (from/to are positions in the label's node list), and    *)
(* the names of the uniqueness constraints in force.                       *)
(***************************************************************************)
EmptyStore ==
    [ Event |-> <<>>, Actor |-> <<>>, Location |-> <<>>,
      EventType |-> <<>>, CAMEOActorType |-> <<>>,
      rels |-> <<>>, constraints |-> {} ]

\* positions of the nodes of a label whose property key has value v
Match(s, label, key, v) == { i \in 1..Len(s[label]) : s[label][i][key] = v }

\* a node or record property; a property that was never written reads null
Prop(node, key) == IF key \in DOMAIN node THEN node[key] ELSE None

\* result of a statement: the store after it, or raised with no effect
Ok(s) == [ raised |-> FALSE, error |-> "", store |-> s ]
Raised(s, e) == [ raised |-> TRUE, error |-> e, store |-> s ]

\* positions of the relationships of a type between two nodes
MatchRel(s, type, from, to) ==
    { i \in 1..Len(s.rels) :
        s.rels[i].type = type /\ s.rels[i].from = from /\ s.rels[i].to = to }

\* a relationship statement that uses CREATE where the source uses MERGE
MergeRel_Create(s, type, from, to, props) ==
    [ s EXCEPT !.rels = Append(@, [ type |-> type, from |-> from,
                                    to |-> to, props |-> props ]) ]

\* MERGE (from)-[r:type]->(to) SET r += props : one relationship is created
\* when none matches, else every matching relationship is updated
MergeRel(s, type, from, to, props) ==
    IF MatchRel(s, type, from, to) = {}
    THEN [ s EXCEPT !.rels = Append(@, [ type |-> type, from |-> from,
                                         to |-> to, props |-> props ]) ]
    ELSE [ s EXCEPT !.rels = <<>> \o [ i \in 1..Len(@) |->
                 IF i \in MatchRel(s, type, from, to)
                 THEN [ @[i] EXCEPT !.props = props ] ELSE @[i] ] ]

\* the elements of a finite set of integers in increasing order
RECURSIVE Ascending(_)
Ascending(S) ==
    IF S = {} THEN <<>>
    ELSE LET m == CHOOSE x \in S : \A y \in S : x <= y
         IN <<m>> \o Ascending(S \ {m})

\* MergeRel for every pair of a row set froms x tos (rows of a MATCH)
RECURSIVE MergeRelRows(_, _, _, _, _)
MergeRelRows(s, type, froms, tos, props) ==
    IF froms = <<>> \/ tos = <<>> THEN s
    ELSE IF Len(tos) = 1
         THEN MergeRelRows(MergeRel(s, type, Head(froms), Head(tos), props),
                           type, Tail(froms), tos, props)
         ELSE MergeRelRows(MergeRelRows(s, type, froms, <<Head(tos)>>, props),
                           type, froms, Tail(tos), props)

\* json.dumps(event.properties)
JsonDumps(props) == <<"json", props>>

\* _create_event_node against a store that does not enforce event_id_unique
_create_event_node_NoConstraint(s, event) ==
    Ok([ s EXCEPT !.Event = Append(@,
           [ eventId |-> event.event_id,
             year |-> event.year,
             eventType |-> event.event_type,
             isLinked |-> event.is_linked,
             linkType |-> event.link_type,
             propertiesJson |->
                 IF TruthyProps(event.properties)
                 THEN Some(JsonDumps(event.properties)) ELSE None ]) ])

\* a _create_event_node that also writes the linkage identifiers of the
\* Event under the property name Pass 2 reads
_create_event_node_WithProperties(s, event) ==
    IF "event_id_unique" \in s.constraints /\ Match(s, "Event", "eventId", event.event_id) # {}
    THEN Raised(s, "ConstraintError")
    ELSE Ok([ s EXCEPT !.Event = Append(@,
                [ eventId |-> event.event_id,
                  year |-> event.year,
                  eventType |-> event.event_type,
                  isLinked |-> event.is_linked,
                  linkType |-> event.link_type,
                  propertiesJson |->
                      IF TruthyProps(event.properties)
                      THEN Some(JsonDumps(event.properties)) ELSE None,
                  properties |->
                      Some([ FROM_EID |-> IF event.linked_from = <<>> THEN None
                                          ELSE Some(event.linked_from[1]),
                             TO_EID |-> IF event.linked_to = <<>> THEN None
                                        ELSE Some(event.linked_to[1]) ]) ]) ])

\* _create_event_node: CREATE (e:Event {...}); the event_id_unique
\* constraint makes the store raise when the eventId is already present
_create_event_node(s, event) ==
    IF "event_id_unique" \in s.constraints /\ Match(s, "Event", "eventId", event.event_id) # {}
    THEN Raised(s, "ConstraintError")
    ELSE Ok([ s EXCEPT !.Event = Append(@,
                [ eventId |-> event.event_id,
                  year |-> event.year,
                  eventType |-> event.event_type,
                  isLinked |-> event.is_linked,
                  linkType |-> event.link_type,
                  propertiesJson |->
                      IF TruthyProps(event.properties)
                      THEN Some(JsonDumps(event.properties)) ELSE None ]) ])

\* relationship type of a role
RoleRelType(role) ==
    CASE role = "initiator" -> "INITIATED_BY" [] role = "target" -> "TARGETED"
      [] OTHER -> "VICTIMIZED"

\* relationship attributes of a role
RoleRelProps(actor) ==
    IF actor.role = "initiator"
    THEN [ actorType |-> actor.actor_type,
           governmentType |-> actor.government_type,
           governmentLevel |-> actor.government_level,
           numParticipants |-> actor.num_participants ]
    ELSE [ actorType |-> actor.actor_type,
           governmentType |-> actor.government_type,
           governmentLevel |-> actor.government_level,
           isHuman |-> is_human(actor) ]

\* the Actor upsert with SET instead of ON CREATE SET
MergeActor_Overwrite(s, actor_id, actor) ==
    IF Match(s, "Actor", "actorId", actor_id) # {}
    THEN [ s EXCEPT !.Actor = <<>> \o [ i \in 1..Len(@) |->
             IF i \in Match(s, "Actor", "actorId", actor_id)
             THEN [ actorId |-> actor_id,
                    name |-> primary_name(actor),
                    cameoCode |-> actor.identity_group,
                    isGovernment |-> is_government(actor) ]
             ELSE @[i] ] ]
    ELSE [ s EXCEPT !.Actor = Append(@,
             [ actorId |-> actor_id,
               name |-> primary_name(actor),
               cameoCode |-> actor.identity_group,
               isGovernment |-> is_government(actor) ]) ]

\* MERGE (a:Actor {actorId: $actor_id}) ON CREATE SET a.name, a.cameoCode,
\* a.isGovernment : the node is created when no node has the actorId, and
\* a matched node is left as it is
MergeActor(s, actor_id, actor) ==
    IF Match(s, "Actor", "actorId", actor_id) # {} THEN s
    ELSE [ s EXCEPT !.Actor = Append(@,
             [ actorId |-> actor_id,
               name |-> primary_name(actor),
               cameoCode |-> actor.identity_group,
               isGovernment |-> is_government(actor) ]) ]

\* one role block of _create_actor_relationships: the MERGE of the Actor
\* node, then MATCH of the Event and MERGE of the role relationship
ActorStatement(s, event, actor) ==
    LET actor_id == generate_actor_id(Val(primary_name(actor)))
        s1 == MergeActor(s, actor_id, actor)
    IN MergeRelRows(s1, RoleRelType(actor.role),
                    Ascending(Match(s1, "Event", "eventId", event.event_id)),
                    Ascending(Match(s1, "Actor", "actorId", actor_id)),
                    RoleRelProps(actor))

\* the role is present on the event and has a name
RoleIssued(event, role) ==
    event[role] # None /\ TruthyStr(primary_name(Val(event[role])))

\* MERGE (l:Location {locationId}) ON CREATE SET ... then MERGE OCCURRED_AT
LocationStatement(s, event) ==
    LET loc == Val(event.location)
        location_id == _generate_location_id(Val(OrStr(loc.name, loc.country)),
                                             loc.latitude, loc.longitude)
        s1 == IF Match(s, "Location", "locationId", location_id) # {} THEN s
              ELSE [ s EXCEPT !.Location = Append(@,
                       [ locationId |-> location_id,
                         name |-> loc.name,
                         country |-> loc.country,
                         latitude |-> loc.latitude,
                         longitude |-> loc.longitude,
                         locationType |-> loc.location_type,
                         region |-> loc.region ]) ]
    IN MergeRelRows(s1, "OCCURRED_AT",
                    Ascending(Match(s1, "Event", "eventId", event.event_id)),
                    Ascending(Match(s1, "Location", "locationId", location_id)),
                    [ none |-> None ])

LocationIssued(event) ==
    event.location # None /\
    (TruthyStr(Val(event.location).name) \/ TruthyStr(Val(event.location).country))

\* str(event.event_type)
RECURSIVE StrOfNat(_)
StrOfNat(n) ==
    LET d == CASE n % 10 = 0 -> "0" [] n % 10 = 1 -> "1" [] n % 10 = 2 -> "2"
               [] n % 10 = 3 -> "3" [] n % 10 = 4 -> "4" [] n % 10 = 5 -> "5"
               [] n % 10 = 6 -> "6" [] n % 10 = 7 -> "7" [] n % 10 = 8 -> "8"
               [] OTHER -> "9"
    IN IF n < 10 THEN <<d>> ELSE StrOfNat(n \div 10) \o <<d>>

\* a _link_event_type whose OPTIONAL MATCH does not look at the code
TypeStatement_AnyType(s, event) ==
    MergeRelRows(s, "OF_TYPE",
                 Ascending(Match(s, "Event", "eventId", event.event_id)),
                 Ascending(1..Len(s.EventType)),
                 [ none |-> None ])

\* _link_event_type: OPTIONAL MATCH of the EventType, MERGE OF_TYPE if found
TypeStatement(s, event) ==
    MergeRelRows(s, "OF_TYPE",
                 Ascending(Match(s, "Event", "eventId", event.event_id)),
                 Ascending(Match(s, "EventType", "cameoCode",
                                 StrOfNat(Val(event.event_type)))),
                 [ none |-> None ])

TypeIssued(event) == TruthyInt(event.event_type)

(***************************************************************************)
(* The per-Event try block of _load_event_batch: the statements are        *)
(* issued in order and the first one that raises ends the block.  fault    *)
(* names the statement at which the store raises on its own (a driver or   *)
(* server error), "none" when it does not.                                 *)
(***************************************************************************)
Statements == <<"event", "initiator", "target", "victim", "location", "type">>

Issued(event, st) ==
    CASE st = "event" -> TRUE
      [] st \in {"initiator", "target", "victim"} -> RoleIssued(event, st)
      [] st = "location" -> LocationIssued(event)
      [] OTHER -> TypeIssued(event)

Exec(s, event, st) ==
    CASE st = "event" -> _create_event_node(s, event)
      [] st \in {"initiator", "target", "victim"} ->
            Ok(ActorStatement(s, event, Val(event[st])))
      [] st = "location" -> Ok(LocationStatement(s, event))
      [] OTHER -> Ok(TypeStatement(s, event))

RECURSIVE RunStatements(_, _, _, _)
RunStatements(s, event, stmts, fault) ==
    IF stmts = <<>> THEN Ok(s)
    ELSE IF ~Issued(event, Head(stmts)) THEN RunStatements(s, event, Tail(stmts), fault)
    ELSE IF fault = Head(stmts) THEN Raised(s, "StoreError")
    ELSE LET r == Exec(s, event, Head(stmts))
         IN IF r.raised THEN r ELSE RunStatements(r.store, event, Tail(stmts), fault)

\* a per-Event try that goes on with the actor, location and event-type
\* steps after the CREATE of the Event node raised
TryLoadEvent_GoesOn(s, event, fault) ==
    IF _create_event_node(s, event).raised /\ fault # "event"
    THEN Raised(RunStatements(s, event, Tail(Statements), fault).store, "ConstraintError")
    ELSE RunStatements(s, event, Statements, fault)

\* a per-Event try whose except branch undoes the writes made for the Event
TryLoadEvent_Rollback(s, event, fault) ==
    IF RunStatements(s, event, Statements, fault).raised
    THEN Raised(s, RunStatements(s, event, Statements, fault).error)
    ELSE RunStatements(s, event, Statements, fault)

\* try: _create_event_node; _create_actor_relationships;
\*      _create_location_relationship; _link_event_type
TryLoadEvent(s, event, fault) == RunStatements(s, event, Statements, fault)

(***************************************************************************)
(* Pass 2, _create_event_links: the query returns eventId and the          *)
(* property named properties of every Event with isLinked = true; a link   *)
(* statement is issued for each truthy FROM_EID / TO_EID of that value.    *)
(***************************************************************************)
\* (record["props"] or {}).get(key)
DictGet(d, key) == IF d = None THEN None ELSE Prop(Val(d), key)

LinkedRecords(s) ==
    LET idx == Ascending({ i \in 1..Len(s.Event) : s.Event[i].isLinked })
    IN [ k \in 1..Len(idx) |->
           [ event_id |-> s.Event[idx[k]].eventId,
             props |-> Prop(s.Event[idx[k]], "properties") ] ]

LinkStatement(s, from_eid, to_eid, direction) ==
    MergeRelRows(s, "LINKED_TO",
                 Ascending(Match(s, "Event", "eventId", from_eid)),
                 Ascending(Match(s, "Event", "eventId", to_eid)),
                 [ direction |-> direction ])

RECURSIVE LinkRecords(_, _)
LinkRecords(s, records) ==
    IF records = <<>> THEN s
    ELSE LET rec == Head(records)
             from_eid == DictGet(rec.props, "FROM_EID")
             to_eid == DictGet(rec.props, "TO_EID")
             s1 == IF TruthyStr(from_eid)
                   THEN LinkStatement(s, Val(from_eid), rec.event_id, "from") ELSE s
             s2 == IF TruthyStr(to_eid)
                   THEN LinkStatement(s1, rec.event_id, Val(to_eid), "to") ELSE s1
         IN LinkRecords(s2, Tail(records))

_create_event_links(s) == LinkRecords(s, LinkedRecords(s))

(***************************************************************************)
(* create_schema: the five uniqueness constraints.                         *)
(***************************************************************************)
SchemaConstraints ==
    { "event_id_unique", "actor_id_unique", "eventtype_code_unique",
      "location_id_unique", "cameo_actor_type_unique" }

(***************************************************************************)
(* SPEEDCSVParser.parse, one row: the row is counted as parsed and its     *)
(* Event yielded, or counted as skipped; a row whose _parse_row raises is  *)
(* recorded in errors and counted as skipped.                              *)
(***************************************************************************)
NewParser == [ pos |-> 0, parsed_count |-> 0, skipped_count |-> 0, errors |-> <<>> ]

\* int(float("inf")) raises OverflowError, which _safe_int does not catch
IntRaises(row, field) ==
    _safe_get(row, field) # None /\ Lower(Val(_safe_get(row, field))) = S3("i", "n", "f")

\* _parse_row raises: an integer column it reads after the identifier
\* check holds an infinity
RowRaises(row) ==
    /\ TruthyStr(_safe_get(row, "eventid"))
    /\ \E f \in {"year", "month", "day", "linked", "EV_TYPE", "LINK_TYPE",
                  "N_INJURD"} : IntRaises(row, f)

\* _log_error
_log_error(idx, row) ==
    [ row_index |-> idx, event_id |-> _safe_get(row, "eventid"),
      error |-> "cannot convert float infinity to integer",
      error_type |-> "OverflowError" ]

\* the row loop with an except branch that logs but does not count the row
ParseStep_ErrorNotCounted(p, row) ==
    IF RowRaises(row)
    THEN [ p EXCEPT !.pos = @ + 1, !.errors = Append(@, _log_error(p.pos, row)) ]
    ELSE IF _parse_row(row) # None
    THEN [ p EXCEPT !.pos = @ + 1, !.parsed_count = @ + 1 ]
    ELSE [ p EXCEPT !.pos = @ + 1, !.skipped_count = @ + 1 ]

\* the body of the row loop of parse for the row at index idx (0-based)
ParseStep(p, row) ==
    IF RowRaises(row)
    THEN [ p EXCEPT !.pos = @ + 1, !.skipped_count = @ + 1,
                    !.errors = Append(@, _log_error(p.pos, row)) ]
    ELSE IF _parse_row(row) # None
    THEN [ p EXCEPT !.pos = @ + 1, !.parsed_count = @ + 1 ]
    ELSE [ p EXCEPT !.pos = @ + 1, !.skipped_count = @ + 1 ]

\* the Event the step yields, None when the row is skipped
Yielded(row) == IF RowRaises(row) THEN None ELSE _parse_row(row)

(***************************************************************************)
(* Inputs: the rows a CSV file is made of.                                 *)
(***************************************************************************)
Columns ==
    { "eventid", "year", "month", "day", "EV_TYPE", "linked", "LINK_TYPE", "FROM_EID", "TO_EID",
      "INI_IGRP1", "INI_SGRP1", "INI_PGRP1", "INI_TYPE", "GOV_I1", "G_LVL_I",
      "NGOV_I1", "N_OF_INI_P",
      "TAR_IGRP1", "TAR_SGRP1", "TAR_PGRP1", "TAR_TYPE", "GOV_T1", "G_LVL_T",
      "NGOV_T1", "HUMAN_T1",
      "VIC_IGRP1", "VIC_SGRP1", "VIC_PGRP1", "VIC_TYPE", "GOV_V1", "G_LVL_V",
      "NGOV_V1", "HUMAN_V1",
      "GP3", "country", "GP7", "GP8", "LOC_TYPE", "region", "weapon", "N_INJURD" }

BlankRow == [ c \in Columns |-> <<>> ]

E1 == S2("E", "1")
E2 == S2("E", "2")

\* E1: initiator "Ab" (government), location "P", linked, TO_EID = E2
RowE1 ==
    [ BlankRow EXCEPT !["eventid"] = E1, !["year"] = S4("1", "9", "9", "0"),
        !["EV_TYPE"] = S1("1"), !["linked"] = S1("1"), !["TO_EID"] = E2,
        !["INI_PGRP1"] = S2("A", "b"), !["INI_IGRP1"] = S1("x"),
        !["GOV_I1"] = S1("1"), !["GP3"] = S1("P"), !["country"] = S1("f"),
        !["GP7"] = S1("1"), !["weapon"] = S1("x") ]

\* E2: target " aB" (not government), location "p", linked, FROM_EID = E1
RowE2 ==
    [ BlankRow EXCEPT !["eventid"] = S3("E", "2", " "), !["EV_TYPE"] = S1("2"),
        !["linked"] = S3("1", ".", "0"), !["FROM_EID"] = E1,
        !["TAR_PGRP1"] = S3(" ", "a", "B"), !["TAR_IGRP1"] = S1("y"),
        !["GOV_T1"] = S1("0"), !["HUMAN_T1"] = S1("1"),
        !["GP3"] = S1("p"), !["country"] = S1("g"),
        !["GP7"] = S3("1", ".", "0") ]

\* the identifier is the sentinel "."
RowNoId ==
    [ BlankRow EXCEPT !["eventid"] = S1("."), !["INI_PGRP1"] = S2("C", "d"),
        !["EV_TYPE"] = S3("i", "n", "f") ]

\* E1 again: victim "Cd", not linked
RowE1Again ==
    [ BlankRow EXCEPT !["eventid"] = E1, !["VIC_SGRP1"] = S2("C", "d"),
        !["FROM_EID"] = E2, !["N_INJURD"] = S1("3") ]

LoadRows == { RowE1, RowE2, RowNoId, RowE1Again }

SeqsUpTo(S, n) == UNION { [1..k -> S] : k \in 0..n }

\* the files of the load: up to MaxRows pairwise different rows (a repeated
\* event id is RowE1 together with RowE1Again)
LoadFiles ==
    { f \in SeqsUpTo(LoadRows, MaxRows) : \A i, j \in 1..Len(f) : f[i] = f[j] => i = j }

(***************************************************************************)
(* State.                                                                  *)
(***************************************************************************)
VARIABLES
    file,          \* the rows of the CSV file at csv_path
    batch_size,    \* the batch_size argument of load_events
    pc,            \* position of the thread of control
    attempt,       \* attempt number of the retry wrapper, 0 before the call
    parser,        \* the SPEEDCSVParser of the current attempt
    batch,         \* the local list batch of load_events
    total_loaded,  \* the local counter total_loaded
    streamDone,    \* the for loop over parser.parse() has ended
    openTx,        \* working copies of the store of the open transactions
    txIdx,         \* position in the batch inside _load_event_batch
    store,         \* the committed graph store
    logged,        \* event_load_failed records of the current batch
    stmtFaults,    \* store errors raised inside a per-Event try so far
    yielded,       \* Events yielded by the parser in this attempt
    submitted,     \* batches passed to _load_event_batch in this attempt
    txBegun,       \* transactions begun in this attempt
    ontology,      \* the parsed CAMEO ontology
    ontologyRuns,  \* completed calls of load_cameo_ontology
    temporal,      \* the TemporalInfo built from a row, None before
    reading,       \* results of reading the properties of temporal
    actor_ids,     \* calls of generate_actor_id: the name and the id returned
    csv,           \* the file and sample size given to SchemaValidator.validate
    validation,    \* the progress and the result of SchemaValidator.validate
    schema,        \* the progress and the completed runs of create_schema
    pipeline,      \* the run of the ingestion script
    classified,    \* event types whose classification properties were read
    agent,         \* the AgentState and the position in the agent workflow
    raised         \* the exception that left the last attempt of load_events

vars == << file, batch_size, pc, attempt, parser, batch, total_loaded, streamDone,
           openTx, txIdx, store, logged, stmtFaults, yielded, submitted, txBegun,
           ontology, ontologyRuns, temporal, reading, actor_ids, csv, validation, schema, pipeline,
           classified, agent, raised >>

loadVars == << batch, total_loaded, streamDone, openTx, txIdx, logged, stmtFaults,
               submitted, txBegun >>

ontologyVars == << ontology, ontologyRuns >>

\* state of the components a specification does not run
temporalVars == << temporal, reading >>

validationVars == << csv, validation >>

\* state of the components added after generate_actor_id
\* state of the components added after validate
\* state of the components added after create_schema
\* state of the components added after the classification properties
afterClassify == << agent >>

\* state of the components added after the ingestion script
afterPipeline == << classified, afterClassify >>

afterSchema == << pipeline, afterPipeline >>

afterValidate == << schema, afterSchema >>

laterVars == << validationVars, afterValidate >>

\* state of the components a step of the loader does not run
idleVars == << temporalVars, actor_ids, laterVars >>

otherVars == << idleVars, raised >>

\* state of the loader, the parser and the store
coreVars == << attempt, parser, yielded, loadVars, store, ontologyVars, raised >>

\* no property of a TemporalInfo was read
NoReading == [ precision |-> <<>>, calendar_date |-> <<>> ]

\* no file was given to the validator
NoCsv == [ exists |-> FALSE, header |-> <<>>, rows |-> <<>>, sample_size |-> 0 ]

\* create_schema was not called; the store has no index
NoSchemaRun ==
    [ pos |-> 0, issued |-> <<>>, failed |-> <<>>, warnings |-> <<>>,
      indexes |-> {}, faults |-> 0, raised |-> FALSE, history |-> <<>> ]

\* AgentState(user_query, session_id) before the workflow has started
NewAgentState ==
    [ node |-> "", intent |-> "", cypher_query |-> <<>>, cypher_valid |-> FALSE,
      cypher_error |-> "", cypher_attempts |-> 0, executed |-> <<>>, error |-> "",
      trace |-> <<>>, final_response |-> "" ]

\* the ingestion script was not started
NotStarted ==
    [ stage |-> "start", skip_validation |-> FALSE, validate_only |-> FALSE,
      skip_cameo |-> FALSE, is_valid |-> <<>>, connect |-> "", driver |-> "",
      issued |-> <<>>, exit |-> <<>> ]

\* validate was not called
NotValidated == [ step |-> 0, errors |-> <<>>, ran |-> <<>>, returned |-> <<>> ]

NoOntology == [ event_types |-> <<>>, actor_types |-> <<>> ]

\* the state after Neo4jLoader(...) returned, for a given file
InitCommon ==
    /\ attempt = 0
    /\ parser = NewParser
    /\ batch = <<>>
    /\ total_loaded = 0
    /\ streamDone = FALSE
    /\ openTx = <<>>
    /\ txIdx = 0
    /\ store = EmptyStore
    /\ logged = <<>>
    /\ stmtFaults = 0
    /\ yielded = <<>>
    /\ submitted = <<>>
    /\ txBegun = 0
    /\ ontologyRuns = 0
    /\ temporal = <<>>
    /\ reading = NoReading
    /\ actor_ids = <<>>
    /\ csv = NoCsv
    /\ validation = NotValidated
    /\ schema = NoSchemaRun
    /\ pipeline = NotStarted
    /\ classified = <<>>
    /\ agent = NewAgentState
    /\ raised = ""

Init ==
    /\ file \in LoadFiles
    /\ batch_size \in 1..MaxBatchSize
    /\ pc = "new"
    /\ ontology = NoOntology
    /\ InitCommon

(***************************************************************************)
(* create_schema, as the ingestion script calls it before load_events.     *)
(***************************************************************************)
CreateSchema ==
    /\ pc = "new"
    /\ store' = [ store EXCEPT !.constraints = @ \cup SchemaConstraints ]
    /\ pc' = "ready"
    /\ UNCHANGED << file, batch_size, otherVars, attempt, parser, yielded, loadVars, ontologyVars >>

(***************************************************************************)
(* load_events under @retry(stop=stop_after_attempt(3)).                   *)
(***************************************************************************)
MaxAttempts == 3

\* start of the body of load_events: a new parser, batch = [], total = 0
StartAttempt ==
    /\ parser' = NewParser
    /\ batch' = <<>>
    /\ total_loaded' = 0
    /\ streamDone' = FALSE
    /\ yielded' = <<>>
    /\ submitted' = <<>>
    /\ txBegun' = 0
    /\ logged' = <<>>
    /\ raised' = ""
    /\ pc' = "parse"

\* the caller invokes load_events: first attempt
LoadEventsCall ==
    /\ pc = "ready"
    /\ attempt' = 1
    /\ StartAttempt
    /\ UNCHANGED << file, batch_size, idleVars, openTx, txIdx, store, stmtFaults, ontologyVars >>

\* the loop body with  len(batch) > batch_size  as the test
ParseRow_Greater ==
    /\ pc = "parse"
    /\ parser.pos < Len(file)
    /\ LET row == file[parser.pos + 1]
           ev == Yielded(row)
       IN /\ parser' = ParseStep(parser, row)
          /\ IF ev = None
             THEN UNCHANGED << batch, yielded, pc, submitted >>
             ELSE /\ batch' = Append(batch, Val(ev))
                  /\ yielded' = Append(yielded, Val(ev))
                  /\ IF Len(batch) + 1 > batch_size
                     THEN /\ pc' = "begin"
                          /\ submitted' = Append(submitted, batch')
                     ELSE /\ pc' = "parse"
                          /\ submitted' = submitted
    /\ UNCHANGED << file, batch_size, otherVars, attempt, total_loaded, streamDone, openTx, txIdx,
                    store, logged, stmtFaults, txBegun, ontologyVars >>

\* one iteration of  for event in parser.parse():  with the loop body;
\* a full batch is passed to _load_event_batch
ParseRow ==
    /\ pc = "parse"
    /\ parser.pos < Len(file)
    /\ LET row == file[parser.pos + 1]
           ev == Yielded(row)
       IN /\ parser' = ParseStep(parser, row)
          /\ IF ev = None
             THEN UNCHANGED << batch, yielded, pc, submitted >>
             ELSE /\ batch' = Append(batch, Val(ev))
                  /\ yielded' = Append(yielded, Val(ev))
                  /\ IF Len(batch) + 1 >= batch_size
                     THEN /\ pc' = "begin"
                          /\ submitted' = Append(submitted, batch')
                     ELSE /\ pc' = "parse"
                          /\ submitted' = submitted
    /\ UNCHANGED << file, batch_size, otherVars, attempt, total_loaded, streamDone, openTx, txIdx,
                    store, logged, stmtFaults, txBegun, ontologyVars >>

\* a load_events that catches the exception of the stream and goes on to
\* Pass 2
StreamFail_ThenPass2 ==
    /\ pc = "parse"
    /\ pc' = "pass2"
    /\ raised' = IF parser.pos = 0 THEN "FileNotFoundError" ELSE "OSError"
    /\ UNCHANGED << file, batch_size, idleVars, attempt, parser, yielded, loadVars, store,
                    ontologyVars >>

\* pd.read_csv raises (missing or unreadable file): parse re-raises and the
\* exception leaves load_events
StreamFail ==
    /\ pc = "parse"
    /\ pc' = "failed"
    /\ raised' = IF parser.pos = 0 THEN "FileNotFoundError" ELSE "OSError"
    /\ UNCHANGED << file, batch_size, idleVars, attempt, parser, yielded, loadVars, store,
                    ontologyVars >>

\* load_events without the  if batch:  block after the loop
ParseEnd_DropRemaining ==
    /\ pc = "parse"
    /\ parser.pos = Len(file)
    /\ streamDone' = TRUE
    /\ pc' = "pass2"
    /\ UNCHANGED << file, batch_size, otherVars, attempt, parser, yielded, batch, total_loaded,
                    openTx, txIdx, store, logged, stmtFaults, submitted, txBegun,
                    ontologyVars >>

\* the for loop ends:  if batch: self._load_event_batch(batch)
ParseEnd ==
    /\ pc = "parse"
    /\ parser.pos = Len(file)
    /\ streamDone' = TRUE
    /\ IF batch # <<>>
       THEN /\ pc' = "begin"
            /\ submitted' = Append(submitted, batch)
       ELSE /\ pc' = "pass2"
            /\ submitted' = submitted
    /\ UNCHANGED << file, batch_size, otherVars, attempt, parser, yielded, batch, total_loaded,
                    openTx, txIdx, store, logged, stmtFaults, txBegun, ontologyVars >>

\* _load_event_batch: with session.begin_transaction() as tx
BeginTx ==
    /\ pc = "begin"
    /\ openTx' = Append(openTx, store)
    /\ txIdx' = 1
    /\ logged' = <<>>
    /\ txBegun' = txBegun + 1
    /\ pc' = "tx"
    /\ UNCHANGED << file, batch_size, otherVars, attempt, parser, yielded, batch, total_loaded,
                    streamDone, store, stmtFaults, submitted, ontologyVars >>

\* an except branch that logs and re-raises
ExceptBranch_Reraise(r, event) ==
    /\ logged' = Append(logged, [ event_id |-> event.event_id, error |-> r.error ])
    /\ txIdx' = txIdx
    /\ pc' = "failed"

\* the except branch of the per-Event try: the failure is logged with the
\* Event's identifier and the loop goes on
ExceptBranch(r, event) ==
    /\ logged' = Append(logged, [ event_id |-> event.event_id, error |-> r.error ])
    /\ txIdx' = txIdx + 1
    /\ pc' = "tx"

\* one iteration of  for event in events:  inside the transaction
LoadEvent ==
    /\ pc = "tx"
    /\ txIdx <= Len(batch)
    /\ \E fault \in {"none"} \cup { Statements[i] : i \in 1..Len(Statements) } :
         /\ fault # "none" => stmtFaults < MaxStmtFaults /\ Issued(batch[txIdx], fault)
         /\ LET r == TryLoadEvent(openTx[Len(openTx)], batch[txIdx], fault)
            IN /\ openTx' = [ openTx EXCEPT ![Len(openTx)] = r.store ]
               /\ IF r.raised
                  THEN ExceptBranch(r, batch[txIdx])
                  ELSE /\ logged' = logged
                       /\ txIdx' = txIdx + 1
                       /\ pc' = "tx"
               /\ stmtFaults' = IF r.raised /\ r.error = "StoreError"
                                THEN stmtFaults + 1 ELSE stmtFaults
    /\ UNCHANGED << file, batch_size, otherVars, attempt, parser, yielded, batch, total_loaded,
                    streamDone, store, submitted, txBegun, ontologyVars >>

\* a transaction that is never closed
CloseTx_Leak(txs) == txs

\* the transaction is closed when the with block is left
CloseTx(txs) == SubSeq(txs, 1, Len(txs) - 1)

\* tx.commit() succeeds; back in load_events: total_loaded += len(batch);
\* batch = []
Commit ==
    /\ pc = "tx"
    /\ txIdx > Len(batch)
    /\ store' = openTx[Len(openTx)]
    /\ openTx' = CloseTx(openTx)
    /\ total_loaded' = total_loaded + Len(batch)
    /\ batch' = <<>>
    /\ pc' = IF streamDone THEN "pass2" ELSE "parse"
    /\ UNCHANGED << file, batch_size, otherVars, attempt, parser, yielded, streamDone, txIdx,
                    logged, stmtFaults, submitted, txBegun, ontologyVars >>

\* tx.commit() raises (the store became unavailable): the with block rolls
\* the transaction back and the exception leaves load_events
CommitFail ==
    /\ pc = "tx"
    /\ txIdx > Len(batch)
    /\ openTx' = CloseTx(openTx)
    /\ pc' = "failed"
    /\ raised' = "ServiceUnavailable"
    /\ UNCHANGED << file, batch_size, idleVars, attempt, parser, yielded, batch, total_loaded,
                    streamDone, txIdx, store, logged, stmtFaults, submitted, txBegun,
                    ontologyVars >>

\* Pass 2 runs to its end and load_events returns
CreateEventLinks ==
    /\ pc = "pass2"
    /\ store' = _create_event_links(store)
    /\ pc' = "done"
    /\ UNCHANGED << file, batch_size, otherVars, attempt, parser, yielded, loadVars, ontologyVars >>

\* the query of Pass 2 raises and the exception leaves load_events
Pass2Fail ==
    /\ pc = "pass2"
    /\ pc' = "failed"
    /\ raised' = "ServiceUnavailable"
    /\ UNCHANGED << file, batch_size, idleVars, attempt, parser, yielded, loadVars, store,
                    ontologyVars >>

\* a retry wrapper that retries once more than stop_after_attempt(3) allows
Retry_OneMore ==
    /\ pc = "failed"
    /\ attempt < MaxAttempts + 1
    /\ attempt' = attempt + 1
    /\ StartAttempt
    /\ UNCHANGED << file, batch_size, idleVars, openTx, txIdx, store, stmtFaults, ontologyVars >>

\* a retry wrapper that retries only after an error of the store
Retry_OnlyStoreErrors ==
    /\ pc = "failed"
    /\ attempt < MaxAttempts
    /\ raised = "ServiceUnavailable"
    /\ attempt' = attempt + 1
    /\ StartAttempt
    /\ UNCHANGED << file, batch_size, idleVars, openTx, txIdx, store, stmtFaults, ontologyVars >>

\* the retry wrapper after an attempt raised: another attempt of the whole
\* of load_events while attempts remain
Retry ==
    /\ pc = "failed"
    /\ attempt < MaxAttempts
    /\ attempt' = attempt + 1
    /\ StartAttempt
    /\ UNCHANGED << file, batch_size, idleVars, openTx, txIdx, store, stmtFaults, ontologyVars >>

\* the retry wrapper after the last attempt raised: the failure reaches the
\* caller of load_events
Escalate ==
    /\ pc = "failed"
    /\ attempt >= MaxAttempts
    /\ pc' = "escalated"
    /\ UNCHANGED << file, batch_size, otherVars, attempt, parser, yielded, loadVars, store,
                    ontologyVars >>

Next ==
    \/ CreateSchema
    \/ LoadEventsCall
    \/ ParseRow
    \/ StreamFail
    \/ ParseEnd
    \/ BeginTx
    \/ LoadEvent
    \/ Commit
    \/ CommitFail
    \/ CreateEventLinks
    \/ Pass2Fail
    \/ Retry
    \/ Escalate

Spec == Init /\ [][Next]_vars

(***************************************************************************)
(* Properties of the two-pass load.                                        *)
(***************************************************************************)
\* the working copy of the innermost open transaction
Tx == openTx[Len(openTx)]
TxAfter == openTx'[Len(openTx')]

\* every store that holds data: the committed one and the working copies
Stores == { store } \cup { openTx[i] : i \in 1..Len(openTx) }

Roles == { "initiator", "target", "victim" }

\* a name after lower-casing and trimming
LowerTrim(name) == Strip(Lower(name))

\* the iteration of the batch loop for batch[txIdx] ended without an error
LoadedWithoutError ==
    /\ pc = "tx" /\ txIdx <= Len(batch)
    /\ txIdx' = txIdx + 1 /\ logged' = logged

OneActorPerIdAndName(s) ==
    \A i, j \in 1..Len(s.Actor) :
        ( \/ s.Actor[i].actorId = s.Actor[j].actorId
          \/ LowerTrim(Val(s.Actor[i].name)) = LowerTrim(Val(s.Actor[j].name)) )
        => i = j

LinkedToActorOfName ==
    LoadedWithoutError =>
        \A role \in Roles :
            RoleIssued(batch[txIdx], role) =>
                \E a \in 1..Len(TxAfter.Actor) :
                    /\ LowerTrim(Val(TxAfter.Actor[a].name)) =
                           LowerTrim(Val(primary_name(Val(batch[txIdx][role]))))
                    /\ \A e \in Match(TxAfter, "Event", "eventId", batch[txIdx].event_id) :
                           MatchRel(TxAfter, RoleRelType(role), e, a) # {}

\* C1: in every store state (committed or inside a transaction, after any
\* number of batch loads and retried loads) there is at most one Actor node
\* per actorId and per lower-cased, trimmed name, and an Event that was
\* loaded is linked, for each of its roles, to the Actor node of that
\* lower-cased, trimmed name; so two Events with equal normalized actor
\* names are linked to the same node.
C1_OneActorNodePerName ==
    /\ [](\A s \in Stores : OneActorPerIdAndName(s))
    /\ [][LinkedToActorOfName]_vars

\* two Events whose actor names differ in case are linked to one Actor node
C1_Witness ==
    \E x, y \in 1..Len(store.rels) :
        /\ store.rels[x].type = "INITIATED_BY"
        /\ store.rels[y].type = "TARGETED"
        /\ store.rels[x].from # store.rels[y].from
        /\ store.rels[x].to = store.rels[y].to
        /\ Len(store.Actor) = 1

\* number of positions of a sequence that satisfy a test
CountWhere(seq, Test(_)) == Cardinality({ k \in 1..Len(seq) : Test(seq[k]) })

\* every Event of the batch under load already has a committed node
BatchAlreadyStored ==
    /\ batch # <<>>
    /\ \A k \in 1..Len(batch) : Match(store, "Event", "eventId", batch[k].event_id) # {}

C3_EventFailureDoesNotAbortBatch ==
    /\ [][ (pc = "tx" /\ txIdx <= Len(batch) /\ logged' # logged) =>
             /\ logged' = Append(logged, logged'[Len(logged')])
             /\ logged'[Len(logged')].event_id = batch[txIdx].event_id
             /\ pc' = "tx" /\ txIdx' = txIdx + 1 /\ batch' = batch
             /\ Len(openTx') = Len(openTx) ]_vars
    /\ [][ Len(openTx') < Len(openTx) =>
             /\ txIdx > Len(batch)
             /\ pc' # "failed" => store' = Tx ]_vars
    /\ [](pc = "tx" => Len(openTx) >= 1)

\* a batch of two was committed although loading its first Event failed:
\* the second Event is in the store
C3_Witness ==
    /\ pc \in {"parse", "pass2"} /\ submitted # <<>> /\ Len(logged) = 1
    /\ LET b == submitted[Len(submitted)]
       IN /\ Len(b) = 2 /\ b[1].event_id # b[2].event_id
          /\ logged[1].event_id = b[1].event_id
          /\ Match(store, "Event", "eventId", b[1].event_id) = {}
          /\ Match(store, "Event", "eventId", b[2].event_id) # {}

\* C4: load_events makes at most 3 attempts; an attempt starts only at the
\* call or after the previous attempt raised, and it starts the whole
\* operation anew (new parser at the first row, empty batch, Pass 1 first);
\* after an attempt raised, the next step is another attempt while fewer
\* than 3 were made and the escalation to the caller after the third; the
\* position after a successful attempt is never left.
C4_AtMostThreeAttempts ==
    /\ [](attempt <= 3)
    /\ [][ attempt' # attempt =>
             /\ attempt' = attempt + 1
             /\ pc = "ready" \/ pc = "failed"
             /\ pc' = "parse" /\ parser' = NewParser /\ batch' = <<>>
             /\ yielded' = <<>> /\ total_loaded' = 0 /\ ~streamDone' ]_vars
    /\ [][ pc = "failed" =>
             /\ attempt < 3 => attempt' = attempt + 1
             /\ attempt = 3 => pc' = "escalated" /\ attempt' = attempt ]_vars
    /\ [][ (pc = "done" \/ pc = "escalated") => pc' = pc ]_vars

\* the third attempt raised and the failure reached the caller
C4_Witness == pc = "escalated" /\ attempt = 3 /\ Len(file) >= 1

\* C5: at most one batch transaction is open at any time, one is open
\* exactly while _load_event_batch runs, and the number of transactions
\* begun equals the number of batches passed to _load_event_batch.
C5_OneTransactionAtATime ==
    /\ Len(openTx) <= 1
    /\ (pc = "tx") <=> (Len(openTx) = 1)
    /\ txBegun = Len(submitted) - (IF pc = "begin" THEN 1 ELSE 0)

\* the transaction of a second batch is open after the first was committed
C5_Witness ==
    /\ pc = "tx" /\ txBegun = 2 /\ Len(openTx) = 1
    /\ total_loaded = Len(submitted[1]) /\ Len(store.Event) >= 1

\* the concatenation of a sequence of sequences
RECURSIVE Flatten(_)
Flatten(ss) == IF ss = <<>> THEN <<>> ELSE Head(ss) \o Flatten(Tail(ss))

LinkedRels(s) == { i \in 1..Len(s.rels) : s.rels[i].type = "LINKED_TO" }

\* C6: Pass 2 is reached only when the row stream has ended, no transaction
\* is open, no Event waits in the batch list, and the batches committed in
\* this attempt hold every Event the parser yielded (the last, partial
\* batch included); LINKED_TO edges change only in the step of Pass 2,
\* never inside a batch transaction.
C6_Pass2AfterAllBatches ==
    /\ [](pc = "pass2" =>
            /\ streamDone /\ parser.pos = Len(file)
            /\ openTx = <<>> /\ batch = <<>>
            /\ Flatten(submitted) = yielded
            /\ total_loaded = Len(yielded)
            /\ txBegun = Len(submitted))
    /\ [][ /\ LinkedRels(store') # LinkedRels(store) => pc = "pass2"
           /\ \A i \in 1..Len(openTx') :
                  LinkedRels(openTx'[i]) = LinkedRels(store) ]_vars

\* Pass 2 is about to start after a full batch and a partial last batch
C6_Witness ==
    /\ pc = "pass2" /\ Len(submitted) = 2
    /\ Len(submitted[1]) = batch_size /\ Len(submitted[2]) < batch_size
    /\ total_loaded = 3 /\ Len(store.Event) = 2

\* the Event the parser builds from a row of the file, None when skipped
Parsed(k) == Yielded(file[k])

\* some relationship LINKED_TO with the direction runs between two Events
HasLink(from_eid, to_eid, direction) ==
    \E r \in LinkedRels(store) :
        /\ store.rels[r].from \in Match(store, "Event", "eventId", from_eid)
        /\ store.rels[r].to \in Match(store, "Event", "eventId", to_eid)
        /\ store.rels[r].props.direction = direction

\* C7: when load_events has completed, every Event stored with isLinked =
\* true whose row carried a FROM_EID (TO_EID) that names a stored Event has
\* a LINKED_TO edge from (to) that Event tagged 'from' ('to'), and no
\* ordered pair of Events has two LINKED_TO edges.
C7_LinkedEventsGetEdges ==
    pc = "done" =>
        /\ \A k \in 1..Len(file) :
             ( /\ Parsed(k) # None
               /\ \E i \in Match(store, "Event", "eventId", Val(Parsed(k)).event_id) :
                      store.Event[i].isLinked ) =>
               LET ev == Val(Parsed(k))
               IN /\ \A n \in 1..Len(ev.linked_from) :
                        Match(store, "Event", "eventId", ev.linked_from[n]) # {} =>
                            HasLink(ev.linked_from[n], ev.event_id, "from")
                  /\ \A n \in 1..Len(ev.linked_to) :
                        Match(store, "Event", "eventId", ev.linked_to[n]) # {} =>
                            HasLink(ev.event_id, ev.linked_to[n], "to")
        /\ \A x, y \in LinkedRels(store) :
             (store.rels[x].from = store.rels[y].from /\ store.rels[x].to = store.rels[y].to)
                 => x = y

\* b starts with a, element for element
Prefix(a, b) == Len(a) <= Len(b) /\ \A i \in 1..Len(a) : b[i] = a[i]

\* C8: no step changes an attribute of an existing Actor or Location node:
\* the committed nodes keep every attribute in the next committed state and
\* in the working copy of every transaction, and so do the nodes of a
\* working copy while its transaction stays open.
C8_UpsertKeepsAttributes ==
    [][ /\ Prefix(store.Actor, store'.Actor)
        /\ Prefix(store.Location, store'.Location)
        /\ \A i \in 1..Len(openTx') :
              /\ Prefix(store.Actor, openTx'[i].Actor)
              /\ Prefix(store.Location, openTx'[i].Location)
              /\ i <= Len(openTx) =>
                    /\ Prefix(openTx[i].Actor, openTx'[i].Actor)
                    /\ Prefix(openTx[i].Location, openTx'[i].Location) ]_vars

\* the Actor and the Location created for E1 were matched by the upserts of
\* E2, whose row gives other attributes, and kept those of E1
C8_Witness ==
    /\ Len(store.Actor) = 1 /\ Len(store.Location) = 1
    /\ store.Actor[1].name = Some(S2("A", "b"))
    /\ store.Actor[1].cameoCode = Some(S1("x")) /\ store.Actor[1].isGovernment
    /\ store.Location[1].name = Some(S1("P")) /\ store.Location[1].country = Some(S1("f"))
    /\ \E x, y \in 1..Len(store.rels) :
          /\ store.rels[x].type = "TARGETED" /\ store.rels[x].to = 1
          /\ store.rels[y].type = "OCCURRED_AT" /\ store.rels[y].from = store.rels[x].from

(***************************************************************************)
(* CAMEO ontology (src/src/domain/cameo.py) and its materialization        *)
(* (Neo4jLoader._load_event_types, _load_actor_types).                     *)
(***************************************************************************)
\* CAMEOEventType as parse_event_types builds it
EventTypeOf(code, label) ==
    [ code |-> code, label |-> label, level |-> Len(code),
      category |-> IF Len(code) >= 2 THEN SubSeq(code, 1, 2) ELSE code ]

\* a parent_code that does not ask for more than 2 characters
parent_code_AnyLength(et) ==
    IF et.level > 1 THEN Some(SubSeq(et.code, 1, Len(et.code) - 1)) ELSE None

\* CAMEOEventType.parent_code
parent_code(et) ==
    IF et.level > 1 /\ Len(et.code) > 2
    THEN Some(SubSeq(et.code, 1, Len(et.code) - 1)) ELSE None

\* CAMEOEventType.root_category
root_category(et) == IF Len(et.code) >= 2 THEN SubSeq(et.code, 1, 2) ELSE et.code

\* int(text), None when it raises ValueError
IntOfText(text) == IF text # <<>> /\ AllDigits(text) THEN Some(DecVal(text)) ELSE None

\* the root category is a number between lo and hi
InBand(et, lo, hi) ==
    LET cat == IntOfText(root_category(et))
    IN cat # None /\ lo <= Val(cat) /\ Val(cat) <= hi

is_cooperation(et) == InBand(et, 1, 9)
is_conflict(et) == InBand(et, 10, 20)
\* an is_material whose band starts at 14
is_material_From14(et) == InBand(et, 14, 20)

is_material(et) == InBand(et, 15, 20)
is_verbal(et) == InBand(et, 1, 14)

\* the first occurrences of the elements of a sequence, in order
RECURSIVE Dedup(_)
Dedup(seq) ==
    IF seq = <<>> THEN <<>>
    ELSE LET front == Dedup(SubSeq(seq, 1, Len(seq) - 1))
             last == seq[Len(seq)]
         IN IF \E i \in 1..Len(front) : front[i] = last THEN front
            ELSE Append(front, last)

\* the codes of a list of event types
RECURSIVE CodesOf(_)
CodesOf(ets) == IF ets = <<>> THEN <<>> ELSE <<Head(ets).code>> \o CodesOf(Tail(ets))

\* CAMEOOntology.build_event_hierarchy: the dict of parent code to list of
\* child codes, as the list of its (parent, child) items in iteration order
build_event_hierarchy(event_types) ==
    LET withParent == SelectSeq(event_types, LAMBDA et : TruthyStr(parent_code(et)))
        parents == Dedup([ i \in 1..Len(withParent) |-> Val(parent_code(withParent[i])) ])
        ChildrenOf(p) == CodesOf(SelectSeq(withParent, LAMBDA et : Val(parent_code(et)) = p))
        Items[n \in 0..Len(parents)] ==
            IF n = 0 THEN <<>>
            ELSE Items[n - 1] \o
                 [ j \in 1..Len(ChildrenOf(parents[n])) |->
                     [ parent |-> parents[n], child |-> ChildrenOf(parents[n])[j] ] ]
    IN Items[Len(parents)]

\* CAMEOActorType.base_country / actor_type / is_international_org
StartsWith(text, prefix) ==
    Len(text) >= Len(prefix) /\ SubSeq(text, 1, Len(prefix)) = prefix

is_international_org(at) ==
    StartsWith(at.code, S3("I", "G", "O")) \/ StartsWith(at.code, S3("N", "G", "O"))

base_country(at) ==
    IF Len(at.code) >= 3 /\ ~is_international_org(at)
    THEN Some(SubSeq(at.code, 1, 3)) ELSE None

actor_type(at) ==
    IF Len(at.code) > 3 THEN Some(SubSeq(at.code, 4, Len(at.code))) ELSE None

\* node written by the EventType statement
EventTypeNode(et) ==
    [ cameoCode |-> et.code, label |-> et.label, level |-> et.level,
      category |-> root_category(et),
      isCooperation |-> is_cooperation(et), isConflict |-> is_conflict(et),
      isMaterial |-> is_material(et), isVerbal |-> is_verbal(et) ]

\* the EventType statement with CREATE instead of MERGE
MergeEventType_Create(s, et) ==
    [ s EXCEPT !.EventType = Append(@, EventTypeNode(et)) ]

\* MERGE (et:EventType {cameoCode: $code}) SET et.label = ..., ...
MergeEventType(s, et) ==
    IF Match(s, "EventType", "cameoCode", et.code) = {}
    THEN [ s EXCEPT !.EventType = Append(@, EventTypeNode(et)) ]
    ELSE [ s EXCEPT !.EventType = <<>> \o [ i \in 1..Len(@) |->
             IF i \in Match(s, "EventType", "cameoCode", et.code)
             THEN EventTypeNode(et) ELSE @[i] ] ]

\* MATCH parent, MATCH child, MERGE (child)-[:PARENT_TYPE]->(parent)
ParentTypeStatement(s, item) ==
    MergeRelRows(s, "PARENT_TYPE",
                 Ascending(Match(s, "EventType", "cameoCode", item.child)),
                 Ascending(Match(s, "EventType", "cameoCode", item.parent)),
                 [ none |-> None ])

\* the loop "for et in event_types: session.run(MERGE ...)"
RECURSIVE MergeEventTypes(_, _)
MergeEventTypes(s, event_types) ==
    IF event_types = <<>> THEN s
    ELSE MergeEventTypes(MergeEventType(s, Head(event_types)), Tail(event_types))

\* the loop "for parent_code, children in hierarchy.items(): for child_code ..."
RECURSIVE MergeParentTypes(_, _)
MergeParentTypes(s, items) ==
    IF items = <<>> THEN s
    ELSE MergeParentTypes(ParentTypeStatement(s, Head(items)), Tail(items))

\* _load_event_types: the node statements, then the hierarchy statements
_load_event_types(s, event_types, hierarchy) ==
    MergeParentTypes(MergeEventTypes(s, event_types), hierarchy)

ActorTypeNode(at) ==
    [ code |-> at.code, name |-> at.name, baseCountry |-> base_country(at),
      actorType |-> actor_type(at), isInternationalOrg |-> is_international_org(at) ]

\* MERGE (at:CAMEOActorType {code: $code}) SET at.name = ..., ...
MergeActorType(s, at) ==
    IF Match(s, "CAMEOActorType", "code", at.code) = {}
    THEN [ s EXCEPT !.CAMEOActorType = Append(@, ActorTypeNode(at)) ]
    ELSE [ s EXCEPT !.CAMEOActorType = <<>> \o [ i \in 1..Len(@) |->
             IF i \in Match(s, "CAMEOActorType", "code", at.code)
             THEN ActorTypeNode(at) ELSE @[i] ] ]

\* _load_actor_types
RECURSIVE _load_actor_types(_, _)
_load_actor_types(s, actor_types) ==
    IF actor_types = <<>> THEN s
    ELSE _load_actor_types(MergeActorType(s, Head(actor_types)), Tail(actor_types))

\* inputs: event types and actor types an ontology directory can give
EventTypeChoices ==
    { EventTypeOf(S2("0", "1"), "Make public statement"),
      EventTypeOf(S3("0", "1", "0"), "Make statement"),
      EventTypeOf(S3("0", "1", "0"), "Make statement, other"),
      EventTypeOf(S4("0", "1", "0", "1"), "Decline comment"),
      EventTypeOf(S2("1", "8"), "Assault") }

ActorTypeChoices ==
    { [ code |-> <<"U", "S", "A", "G", "O", "V">>, name |-> "United States" ],
      [ code |-> <<"U", "S", "A", "G", "O", "V">>, name |-> "Washington" ],
      [ code |-> <<"I", "G", "O", "U", "N", "O">>, name |-> "United Nations" ] }

MaxActorTypes == 2

InitOntology ==
    /\ file = <<>>
    /\ batch_size = 1
    /\ pc = "new"
    /\ ontology \in [ event_types : SeqsUpTo(EventTypeChoices, MaxEventTypes),
                      actor_types : SeqsUpTo(ActorTypeChoices, MaxActorTypes) ]
    /\ InitCommon

\* load_cameo_ontology, first call: self._load_event_types(...)
LoadEventTypes ==
    /\ pc = "ready"
    /\ ontologyRuns < MaxOntologyRuns
    /\ store' = _load_event_types(store, ontology.event_types,
                                  build_event_hierarchy(ontology.event_types))
    /\ pc' = "actor_types"
    /\ UNCHANGED << file, batch_size, otherVars, attempt, parser, yielded, loadVars, ontologyVars >>

\* load_cameo_ontology, second call: self._load_actor_types(...)
LoadActorTypes ==
    /\ pc = "actor_types"
    /\ store' = _load_actor_types(store, ontology.actor_types)
    /\ ontologyRuns' = ontologyRuns + 1
    /\ pc' = "ready"
    /\ UNCHANGED << file, batch_size, otherVars, attempt, parser, yielded, loadVars, ontology >>

NextOntology ==
    \/ CreateSchema
    \/ LoadEventTypes
    \/ LoadActorTypes

SpecOntology == InitOntology /\ [][NextOntology]_vars

\* the store after create_schema and one run of load_cameo_ontology
AfterOneRun ==
    _load_actor_types(
        _load_event_types([ EmptyStore EXCEPT !.constraints = SchemaConstraints ],
                          ontology.event_types,
                          build_event_hierarchy(ontology.event_types)),
        ontology.actor_types)

OnePerKey(s, label, key) ==
    \A i, j \in 1..Len(s[label]) : s[label][i][key] = s[label][j][key] => i = j

OneRelPerPair(s, type) ==
    \A x, y \in 1..Len(s.rels) :
        ( /\ s.rels[x].type = type /\ s.rels[y].type = type
          /\ s.rels[x].from = s.rels[y].from /\ s.rels[x].to = s.rels[y].to ) => x = y

\* C9: after any number of completed runs of load_cameo_ontology with the
\* same ontology the store equals the store after the first run; it holds
\* one EventType node per cameoCode, one CAMEOActorType node per code and
\* one PARENT_TYPE edge per child/parent pair; and no step removes a node
\* or an edge (each keeps its key, respectively its type and end points).
C9_OntologyUpsertIdempotent ==
    /\ []((pc = "ready" /\ ontologyRuns >= 1) => store = AfterOneRun)
    /\ [](/\ OnePerKey(store, "EventType", "cameoCode")
          /\ OnePerKey(store, "CAMEOActorType", "code")
          /\ OneRelPerPair(store, "PARENT_TYPE"))
    /\ [][ /\ Len(store'.EventType) >= Len(store.EventType)
           /\ \A i \in 1..Len(store.EventType) :
                 store'.EventType[i].cameoCode = store.EventType[i].cameoCode
           /\ Len(store'.CAMEOActorType) >= Len(store.CAMEOActorType)
           /\ \A i \in 1..Len(store.CAMEOActorType) :
                 store'.CAMEOActorType[i].code = store.CAMEOActorType[i].code
           /\ Prefix(store.rels, store'.rels) ]_vars

\* a second run has completed on an ontology with a parent and a child
\* event type and an actor type
C9_Witness ==
    /\ pc = "ready" /\ ontologyRuns = 2
    /\ Len(store.EventType) = 2 /\ Len(store.CAMEOActorType) >= 1
    /\ \E r \in 1..Len(store.rels) : store.rels[r].type = "PARENT_TYPE"

(***************************************************************************)
(* The parser on its own: a consumer iterates parse() to its end.          *)
(***************************************************************************)
RowId(text) == [ BlankRow EXCEPT !["eventid"] = text, !["GP3"] = S1("P") ]

\* the row with an infinity in the year column, on which _parse_row raises
RowInf == [ RowE1Again EXCEPT !["year"] = S3("i", "n", "f") ]

ParseRows ==
    { RowId(<<>>), RowId(S1(".")), RowId(S3("n", "a", "n")), RowId(S3("N", "a", "N")),
      RowId(S4("n", "u", "l", "l")), RowNoId, RowE1, RowE2, RowInf }

InitParse ==
    /\ file \in SeqsUpTo(ParseRows, MaxRows)
    /\ batch_size = 1
    /\ pc = "consume"
    /\ ontology = NoOntology
    /\ InitCommon

\* the consumer takes the next item of parse(): one row is processed
ConsumeRow ==
    /\ pc = "consume"
    /\ parser.pos < Len(file)
    /\ parser' = ParseStep(parser, file[parser.pos + 1])
    /\ yielded' = IF Yielded(file[parser.pos + 1]) = None THEN yielded
                  ELSE Append(yielded, Val(Yielded(file[parser.pos + 1])))
    /\ UNCHANGED << file, batch_size, otherVars, pc, attempt, loadVars, store, ontologyVars >>

\* the rows are exhausted and parse() returns
ConsumeEnd ==
    /\ pc = "consume"
    /\ parser.pos = Len(file)
    /\ pc' = "parsed"
    /\ UNCHANGED << file, batch_size, otherVars, attempt, parser, yielded, loadVars, store,
                    ontologyVars >>

\* pd.read_csv raises: parse() logs and re-raises
ConsumeFail ==
    /\ pc = "consume"
    /\ pc' = "parse_failed"
    /\ UNCHANGED << file, batch_size, otherVars, attempt, parser, yielded, loadVars, store,
                    ontologyVars >>

NextParse ==
    \/ ConsumeRow
    \/ ConsumeEnd
    \/ ConsumeFail

SpecParse == InitParse /\ [][NextParse]_vars

\* the identifier texts the claim names as missing
MissingIdTexts ==
    { <<>>, S1("."), S3("n", "a", "n"), S3("N", "a", "N"), S4("n", "u", "l", "l") }

\* C10: the step of parse that processes a row whose identifier is missing
\* yields no Event, leaves parsed_count and the error log unchanged and
\* adds one to skipped_count.
C10_MissingIdIsSkipped ==
    [][ ( /\ pc = "consume" /\ parser.pos < Len(file)
          /\ parser'.pos = parser.pos + 1
          /\ file[parser.pos + 1]["eventid"] \in MissingIdTexts ) =>
            /\ yielded' = yielded
            /\ parser'.parsed_count = parser.parsed_count
            /\ parser'.skipped_count = parser.skipped_count + 1
            /\ parser'.errors = parser.errors ]_vars

\* a row with the identifier "." and an infinity in EV_TYPE was skipped
\* after a row that was parsed
C10_Witness ==
    /\ parser.pos = 2 /\ Len(file) >= 2
    /\ file[2] = RowNoId
    /\ parser.parsed_count = 1 /\ parser.skipped_count = 1 /\ parser.errors = <<>>

\* C11: after any number of processed rows parsed_count + skipped_count is
\* the number of rows processed and the error log has at most skipped_count
\* records; the step that processes a row on which _parse_row raises does
\* not end the iteration (the consumer stays in its loop), yields nothing,
\* appends one record with the row index, the identifier, the exception
\* class name and the message, counts the row as skipped, and leaves the
\* next row to be processed.
C11_RowErrorIsLoggedAndSkipped ==
    /\ [](/\ parser.parsed_count + parser.skipped_count = parser.pos
          /\ Len(parser.errors) <= parser.skipped_count)
    /\ [][ ( /\ pc = "consume" /\ parser.pos < Len(file)
             /\ parser'.pos = parser.pos + 1
             /\ RowRaises(file[parser.pos + 1]) ) =>
               /\ pc' = "consume"
               /\ yielded' = yielded
               /\ parser'.parsed_count = parser.parsed_count
               /\ parser'.skipped_count = parser.skipped_count + 1
               /\ parser'.errors = Append(parser.errors,
                     [ row_index |-> parser.pos,
                       event_id |-> Some(file[parser.pos + 1]["eventid"]),
                       error |-> "cannot convert float infinity to integer",
                       error_type |-> "OverflowError" ]) ]_vars

\* the second of three rows raised, the first and the third were parsed
C11_Witness ==
    /\ Len(file) = 3 /\ file[2] = RowInf /\ parser.pos = 3
    /\ parser.parsed_count = 2 /\ parser.skipped_count = 1
    /\ Len(parser.errors) = 1 /\ parser.errors[1].row_index = 1
    /\ Len(yielded) = 2

(***************************************************************************)
(* TemporalInfo (src/src/domain/events.py): built by _parse_temporal from  *)
(* a row, then read through its properties.                                *)
(***************************************************************************)
\* the int _safe_int gives for a TemporalInfo field.  Python ints are not
\* bounded: a text of eleven or more digits is a value above 2^31 - 1, which
\* does not fit a C int; it is kept as big, without its digits
PyInt(row, field) ==
    LET value == _safe_get(row, field)
    IN IF value # None /\ AllDigits(Val(value)) /\ Len(Val(value)) > 10
          /\ Val(value)[1] # "0"
       THEN Some([ big |-> TRUE, val |-> 0 ])
       ELSE IF _safe_int(row, field) = None THEN None
            ELSE Some([ big |-> FALSE, val |-> Val(_safe_int(row, field)) ])

\* _parse_temporal: the calendar fields of the TemporalInfo
_parse_temporal(row) ==
    [ year |-> PyInt(row, "year"), month |-> PyInt(row, "month"),
      day |-> PyInt(row, "day") ]

\* truth value of an Optional[int]
TruthyPyInt(o) == o # None /\ (Val(o).big \/ Val(o).val # 0)

IsLeap(y) == (y % 4 = 0 /\ y % 100 # 0) \/ y % 400 = 0

DaysInMonth(y, m) ==
    IF m = 2 THEN (IF IsLeap(y) THEN 29 ELSE 28)
    ELSE IF m \in {4, 6, 9, 11} THEN 30 ELSE 31

\* datetime.date(year, month, day): OverflowError for an argument that does
\* not fit a C int, ValueError for one out of range, else the date
date(y, m, d) ==
    IF y.big \/ m.big \/ d.big
    THEN [ raised |-> "OverflowError", value |-> None ]
    ELSE IF \/ y.val < 1 \/ y.val > 9999 \/ m.val < 1 \/ m.val > 12
            \/ d.val < 1 \/ d.val > DaysInMonth(y.val, m.val)
    THEN [ raised |-> "ValueError", value |-> None ]
    ELSE [ raised |-> "", value |-> Some(<< y.val, m.val, d.val >>) ]

\* TemporalInfo.calendar_date: except ValueError: return None
calendar_date(t) ==
    IF TruthyPyInt(t.year) /\ TruthyPyInt(t.month) /\ TruthyPyInt(t.day)
    THEN IF date(Val(t.year), Val(t.month), Val(t.day)).raised = "ValueError"
         THEN [ raised |-> "", value |-> None ]
         ELSE date(Val(t.year), Val(t.month), Val(t.day))
    ELSE [ raised |-> "", value |-> None ]

\* TemporalInfo.precision
precision(t) ==
    IF TruthyPyInt(t.day) THEN "day"
    ELSE IF TruthyPyInt(t.month) THEN "month"
    ELSE IF TruthyPyInt(t.year) THEN "year"
    ELSE "unknown"

\* inputs: texts of the year, month and day columns
YearTexts ==
    { S1("."), S1("0"), S4("1", "9", "9", "0"), S4("2", "0", "0", "0"),
      <<"1", "0", "0", "0", "0">>,
      <<"3", "0", "0", "0", "0", "0", "0", "0", "0", "0", "0">> }

MonthTexts ==
    { S1("."), S1("0"), S1("2"), S2("1", "2"), S2("1", "3"),
      <<"3", "0", "0", "0", "0", "0", "0", "0", "0", "0", "0">> }

DayTexts ==
    { S1("."), S1("0"), S1("5"), S2("2", "9"), S2("3", "0"), S2("3", "1"),
      S2("3", "2") }

TemporalRow(y, m, d) ==
    [ BlankRow EXCEPT !["eventid"] = E1, !["year"] = y, !["month"] = m, !["day"] = d ]

InitTemporal ==
    /\ file \in { << TemporalRow(y, m, d) >> :
                    y \in YearTexts, m \in MonthTexts, d \in DayTexts }
    /\ batch_size = 1
    /\ pc = "row"
    /\ ontology = NoOntology
    /\ InitCommon

\* _parse_row calls _parse_temporal(row)
BuildTemporal ==
    /\ pc = "row"
    /\ temporal' = Some(_parse_temporal(file[1]))
    /\ pc' = "built"
    /\ UNCHANGED << file, batch_size, coreVars, reading, actor_ids, laterVars >>

\* a caller reads temporal.precision
ReadPrecision ==
    /\ pc = "built"
    /\ reading.precision = None
    /\ reading' = [ reading EXCEPT !.precision = Some(precision(Val(temporal))) ]
    /\ UNCHANGED << file, batch_size, pc, coreVars, temporal, actor_ids, laterVars >>

\* a caller reads temporal.calendar_date
ReadCalendarDate ==
    /\ pc = "built"
    /\ reading.calendar_date = None
    /\ reading' = [ reading EXCEPT
                      !.calendar_date = Some(calendar_date(Val(temporal))) ]
    /\ UNCHANGED << file, batch_size, pc, coreVars, temporal, actor_ids, laterVars >>

NextTemporal ==
    \/ BuildTemporal
    \/ ReadPrecision
    \/ ReadCalendarDate

SpecTemporal == InitTemporal /\ [][NextTemporal]_vars

\* year, month and day are populated and form a date of the calendar
ValidDate(t) ==
    /\ TruthyPyInt(t.year) /\ TruthyPyInt(t.month) /\ TruthyPyInt(t.day)
    /\ date(Val(t.year), Val(t.month), Val(t.day)).raised = ""

\* year, month and day are given but do not form a date of the calendar
InvalidDate(t) ==
    /\ t.year # None /\ t.month # None /\ t.day # None
    /\ ~ValidDate(t)

\* C12: when the year, month and day of a TemporalInfo are given and do not
\* form a valid calendar date, reading calendar_date does not raise and
\* gives None, and precision is a field coarser than the day.
C12_InvalidDateDegrades ==
    (temporal # None /\ InvalidDate(Val(temporal))) =>
        /\ reading.calendar_date # None =>
              /\ Val(reading.calendar_date).raised = ""
              /\ Val(reading.calendar_date).value = None
        /\ reading.precision # None =>
              Val(reading.precision) \in { "month", "year", "unknown" }

(***************************************************************************)
(* generate_actor_id (src/src/domain/actors.py) called on names.           *)
(***************************************************************************)
MaxIdCalls == 2

\* inputs: actor names
NameTexts ==
    { <<>>, S1(" "), S2(" ", " "), S2("A", "b"), S2("a", "b"), S2("A", "B"),
      S3(" ", "a", "b"), S3("a", "b", " "), S4(" ", "A", "b", " "),
      S3("a", " ", "b"), S3("A", " ", "B"), S1("c") }

\* a caller calls generate_actor_id(actor_name)
GenerateActorId ==
    /\ pc = "ids"
    /\ Len(actor_ids) < MaxIdCalls
    /\ \E actor_name \in NameTexts :
          actor_ids' = Append(actor_ids, [ actor_name |-> actor_name,
                                           actor_id |-> generate_actor_id(actor_name) ])
    /\ UNCHANGED << file, batch_size, pc, coreVars, temporalVars, laterVars >>

InitActorId ==
    /\ file = <<>>
    /\ batch_size = 1
    /\ pc = "ids"
    /\ ontology = NoOntology
    /\ InitCommon

NextActorId == GenerateActorId

SpecActorId == InitActorId /\ [][NextActorId]_vars

\* C13: two names that are equal after lower-casing and trimming get the
\* same id, and the lower-cased, trimmed form of a name gets the id of the
\* name.
C13_IdDependsOnNormalizedName ==
    \A i, j \in 1..Len(actor_ids) :
        /\ LowerTrim(actor_ids[i].actor_name) = LowerTrim(actor_ids[j].actor_name)
              => actor_ids[i].actor_id = actor_ids[j].actor_id
        /\ actor_ids[j].actor_name = LowerTrim(actor_ids[i].actor_name)
              => actor_ids[i].actor_id = actor_ids[j].actor_id

(***************************************************************************)
(* SchemaValidator.validate (src/src/ingestion/schema_validator.py).       *)
(* A CSV file is a header (a sequence of column names) and rows (each a    *)
(* sequence of cells, one per header column). The sample has at least one *)
(* row, and its numeric cells have no fractional digits.                  *)
(***************************************************************************)
MaxSampleRows == 2

EXPECTED_FIELD_COUNT == 106

REQUIRED_FIELDS == << "eventid", "year", "month", "day", "EV_TYPE", "NEWS_SOURCE" >>

MIN_YEAR == 1900
MAX_YEAR == 2100
MIN_MONTH == 1
MAX_MONTH == 12
MIN_DAY == 1
MAX_DAY == 31

\* read_csv renames the k-th repetition of a column name to name.k
MangleDupeCols(header) ==
    <<>> \o [ i \in 1..Len(header) |->
                LET k == Cardinality({ j \in 1..(i - 1) : header[j] = header[i] })
                IN IF k = 0 THEN header[i] ELSE header[i] \o "." \o ToString(k) ]

\* the frame read_csv(csv_path, nrows=n) gives
ReadCsv(c, n) ==
    [ columns |-> MangleDupeCols(c.header),
      rows |-> SubSeq(c.rows, 1, IF n < Len(c.rows) THEN n ELSE Len(c.rows)) ]

HasColumn(df, col) == \E i \in 1..Len(df.columns) : df.columns[i] = col

\* df[col]: the cells of a column
ColumnCells(df, col) ==
    LET k == CHOOSE i \in 1..Len(df.columns) : df.columns[i] = col
    IN <<>> \o [ r \in 1..Len(df.rows) |-> df.rows[r][k] ]

\* validate reads without na_values: a cell is NaN when it is one of the
\* default missing-value texts of read_csv
IsNaN(cell) == cell \in PandasDefaultNA

\* the dtype read_csv infers: numeric when every cell that is not NaN is a
\* number, else object (the cells stay str)
NumericColumn(cells) ==
    \A i \in 1..Len(cells) : IsNaN(cells[i]) \/ IntOfFloatText(cells[i]) # None

\* the number of rows whose cell is below lo or above hi (NaN is neither)
OutOfRange(cells, lo, hi) ==
    Cardinality({ i \in 1..Len(cells) :
                    /\ ~IsNaN(cells[i])
                    /\ \/ Val(IntOfFloatText(cells[i])) < lo
                       \/ Val(IntOfFloatText(cells[i])) > hi })

\* the result of one statement of the try block: the errors it appends, or
\* the exception it raises
Passed(errs) == [ errors |-> errs, raised |-> "" ]
Throws(e) == [ errors |-> <<>>, raised |-> e ]

\* range check of a temporal column: comparing an object column (str
\* cells) with an int raises TypeError
RangeCheck(df, col, lo, hi, message) ==
    IF ~HasColumn(df, col) THEN Passed(<<>>)
    ELSE IF ~NumericColumn(ColumnCells(df, col)) THEN Throws("TypeError")
    ELSE IF OutOfRange(ColumnCells(df, col), lo, hi) > 0 THEN Passed(<< message >>)
    ELSE Passed(<<>>)

\* Series.duplicated().any(): two rows with the same value, NaN included
HasDuplicated(cells) ==
    \E i, j \in 1..Len(cells) :
        /\ i < j
        /\ \/ IsNaN(cells[i]) /\ IsNaN(cells[j])
           \/ /\ ~IsNaN(cells[i]) /\ ~IsNaN(cells[j])
              /\ IF NumericColumn(cells)
                 THEN IntOfFloatText(cells[i]) = IntOfFloatText(cells[j])
                 ELSE cells[i] = cells[j]

\* rows whose EV_TYPE is not NaN and not in {1, 2, 4, 5}; a str is never in
InvalidTypes(cells) ==
    { i \in 1..Len(cells) :
        /\ ~IsNaN(cells[i])
        /\ \/ ~NumericColumn(cells)
           \/ Val(IntOfFloatText(cells[i])) \notin { 1, 2, 4, 5 } }

\* _check_completeness: overall_complete < 0.01
LowCompleteness(df) ==
    LET total_cells == Len(df.rows) * Len(df.columns)
        non_null == Cardinality({ rc \in (1..Len(df.rows)) \X (1..Len(df.columns)) :
                                    ~IsNaN(df.rows[rc[1]][rc[2]]) })
    IN IF total_cells > 0 THEN 100 * non_null < total_cells ELSE TRUE

\* missing_pct > 0.5 for a critical field
MostlyMissing(df, field) ==
    /\ HasColumn(df, field)
    /\ 2 * Cardinality({ i \in 1..Len(df.rows) : IsNaN(ColumnCells(df, field)[i]) })
         > Len(df.rows)

\* the errors of the critical fields, in the order of the loop
CriticalErrors(df) ==
    (IF MostlyMissing(df, "eventid") THEN << "Critical field 'eventid'" >> ELSE <<>>)
    \o (IF MostlyMissing(df, "year") THEN << "Critical field 'year'" >> ELSE <<>>)
    \o (IF MostlyMissing(df, "EV_TYPE") THEN << "Critical field 'EV_TYPE'" >> ELSE <<>>)

\* the statements of the try block of validate, in order
ValidateBody ==
    << "read_header", "field_count", "required_fields", "duplicate_columns",
       "read_sample", "event_ids", "year", "month", "day", "EV_TYPE",
       "completeness", "critical_fields" >>

\* the checks among them
Checks == { ValidateBody[i] : i \in 1..Len(ValidateBody) } \ { "read_header", "read_sample" }

\* reading the file: a missing file raises FileNotFoundError, a file
\* without a header line raises EmptyDataError
ReadRaises(c) ==
    IF ~c.exists THEN "FileNotFoundError"
    ELSE IF c.header = <<>> THEN "EmptyDataError"
    ELSE ""

\* one statement of the try block
RunStatement(name, c) ==
    LET columns == MangleDupeCols(c.header)
        df_sample == ReadCsv(c, c.sample_size)
    IN CASE name \in { "read_header", "read_sample" } ->
              IF ReadRaises(c) # "" THEN Throws(ReadRaises(c)) ELSE Passed(<<>>)
         [] name = "field_count" ->
              IF Len(columns) # EXPECTED_FIELD_COUNT
              THEN Passed(<< "Expected 106 fields" >>) ELSE Passed(<<>>)
         [] name = "required_fields" ->
              IF \E i \in 1..Len(REQUIRED_FIELDS) :
                     \A j \in 1..Len(columns) : columns[j] # REQUIRED_FIELDS[i]
              THEN Passed(<< "Missing required fields" >>) ELSE Passed(<<>>)
         [] name = "duplicate_columns" ->
              IF \E i, j \in 1..Len(columns) : i # j /\ columns[i] = columns[j]
              THEN Passed(<< "Duplicate columns" >>) ELSE Passed(<<>>)
         [] name = "event_ids" ->
              IF HasColumn(df_sample, "eventid")
                 /\ HasDuplicated(ColumnCells(df_sample, "eventid"))
              THEN Passed(<< "Duplicate event IDs found in sample" >>) ELSE Passed(<<>>)
         [] name = "year" ->
              RangeCheck(df_sample, "year", MIN_YEAR, MAX_YEAR, "Invalid year values detected")
         [] name = "month" ->
              RangeCheck(df_sample, "month", MIN_MONTH, MAX_MONTH, "Invalid month values detected")
         [] name = "day" ->
              RangeCheck(df_sample, "day", MIN_DAY, MAX_DAY, "Invalid day values detected")
         [] name = "EV_TYPE" ->
              IF HasColumn(df_sample, "EV_TYPE")
                 /\ InvalidTypes(ColumnCells(df_sample, "EV_TYPE")) # {}
              THEN Passed(<< "Invalid EV_TYPE values detected" >>) ELSE Passed(<<>>)
         [] name = "completeness" ->
              IF LowCompleteness(df_sample)
              THEN Passed(<< "Very low data completeness" >>) ELSE Passed(<<>>)
         [] OTHER -> Passed(CriticalErrors(df_sample))

\* inputs: headers
FillerColumns(n) == <<>> \o [ i \in 1..n |-> "f" \o ToString(i) ]

Header106 == REQUIRED_FIELDS \o FillerColumns(100)

\* 105 columns, all required fields present
Header105 == REQUIRED_FIELDS \o FillerColumns(99)

\* 105 columns, month is missing
HeaderNoMonth == << "eventid", "year", "day", "EV_TYPE", "NEWS_SOURCE" >> \o FillerColumns(100)

\* 106 columns, year is given twice
HeaderTwoYears == REQUIRED_FIELDS \o << "year" >> \o FillerColumns(99)

Headers == { Header106, Header105, HeaderNoMonth, HeaderTwoYears }

\* inputs: the cells of a row, by column; other is the cell of every
\* column that is not named
RowCells(eventid, year, month, day, ev_type, other) ==
    [ eventid |-> eventid, year |-> year, month |-> month, day |-> day,
      EV_TYPE |-> ev_type, other |-> other ]

SampleCells ==
    { RowCells(E1, S4("1", "9", "9", "0"), S1("2"), S1("5"), S1("1"), S1("x")),
      RowCells(E2, S4("1", "9", "9", "0"), S1("2"), S1("5"), S1("2"), S1("x")),
      RowCells(E1, S4("1", "8", "9", "9"), S2("1", "3"), S2("3", "2"), S1("3"), S1("x")),
      RowCells(E2, S1("."), S1("2"), S1("5"), S1("1"), S1("x")),
      RowCells(<<>>, <<>>, <<>>, <<>>, <<>>, <<>>),
      RowCells(E1, <<>>, <<>>, <<>>, <<>>, <<>>) }

\* the row of a file with the given header
RowFor(header, cells) ==
    <<>> \o [ i \in 1..Len(header) |->
                IF header[i] \in DOMAIN cells THEN cells[header[i]] ELSE cells.other ]

CsvFiles ==
    { [ exists |-> FALSE, header |-> <<>>, rows |-> <<>>, sample_size |-> n ] :
        n \in 1..MaxSampleRows }
    \cup { [ exists |-> TRUE, header |-> <<>>, rows |-> <<>>, sample_size |-> n ] :
             n \in 1..MaxSampleRows }
    \cup UNION { { [ exists |-> TRUE, header |-> h,
                     rows |-> <<>> \o [ i \in 1..Len(cs) |-> RowFor(h, cs[i]) ],
                     sample_size |-> n ] :
                   cs \in SeqsUpTo(SampleCells, MaxSampleRows) \ { <<>> },
                   n \in 1..MaxSampleRows } : h \in Headers }

\* the value validate returns
Returned(is_valid, errors) == << [ is_valid |-> is_valid, errors |-> errors ] >>

\* a caller calls validate(csv_path, sample_size): errors = []
ValidateCall ==
    /\ pc = "validate"
    /\ validation.step = 0
    /\ \E c \in CsvFiles : csv' = c
    /\ validation' = [ validation EXCEPT !.step = 1 ]
    /\ UNCHANGED << file, batch_size, pc, coreVars, temporalVars, actor_ids, afterValidate >>

\* the next statement of the try block completes
ValidateStep ==
    /\ pc = "validate"
    /\ validation.returned = None
    /\ validation.step \in 1..Len(ValidateBody)
    /\ LET name == ValidateBody[validation.step]
           o == RunStatement(name, csv)
       IN /\ o.raised = ""
          /\ validation' = [ validation EXCEPT !.step = @ + 1,
                                               !.errors = @ \o o.errors,
                                               !.ran = Append(@, name) ]
    /\ UNCHANGED << file, batch_size, pc, coreVars, temporalVars, actor_ids, csv, afterValidate >>

\* the next statement of the try block raises: the except branches append
\* one error and return False
ValidateExcept ==
    /\ pc = "validate"
    /\ validation.returned = None
    /\ validation.step \in 1..Len(ValidateBody)
    /\ LET o == RunStatement(ValidateBody[validation.step], csv)
           errors == Append(validation.errors,
                            IF o.raised = "FileNotFoundError"
                            THEN "File not found" ELSE "Validation exception")
       IN /\ o.raised # ""
          /\ validation' = [ validation EXCEPT !.errors = errors,
                                               !.returned = Returned(FALSE, errors) ]
    /\ UNCHANGED << file, batch_size, pc, coreVars, temporalVars, actor_ids, csv, afterValidate >>

\* the summary at the end of the try block
ValidateReturn ==
    /\ pc = "validate"
    /\ validation.returned = None
    /\ validation.step = Len(ValidateBody) + 1
    /\ validation' = [ validation EXCEPT !.returned =
                         IF validation.errors # <<>>
                         THEN Returned(FALSE, validation.errors)
                         ELSE Returned(TRUE, <<>>) ]
    /\ UNCHANGED << file, batch_size, pc, coreVars, temporalVars, actor_ids, csv, afterValidate >>

InitValidate ==
    /\ file = <<>>
    /\ batch_size = 1
    /\ pc = "validate"
    /\ ontology = NoOntology
    /\ InitCommon

NextValidate == ValidateCall \/ ValidateStep \/ ValidateExcept \/ ValidateReturn

SpecValidate == InitValidate /\ [][NextValidate]_vars

\* the file was read: it exists and has a header line
Readable(c) == c.exists /\ c.header # <<>>

Count(errors, e) == Cardinality({ i \in 1..Len(errors) : errors[i] = e })

\* C14: when validate has returned for a file it could read, every check
\* was run, the error list holds the field-count error once exactly when
\* the number of columns is not 106, and the flag is true exactly when the
\* returned error list is empty.
C14_AllChecksRun ==
    (validation.returned # None) =>
        /\ Val(validation.returned).is_valid = (Val(validation.returned).errors = <<>>)
        /\ Readable(csv) =>
              /\ Checks \subseteq { validation.ran[i] : i \in 1..Len(validation.ran) }
              /\ Count(Val(validation.returned).errors, "Expected 106 fields")
                   = IF Len(csv.header) # EXPECTED_FIELD_COUNT THEN 1 ELSE 0

(***************************************************************************)
(* Neo4jLoader.create_schema, statement by statement. A statement either   *)
(* runs or raises with no effect on the store; opening and closing the     *)
(* session do not raise.                                                   *)
(***************************************************************************)
MaxSchemaRuns == 2
MaxSchemaFaults == 2

\* the names of the list constraints, in order
ConstraintStatements ==
    << "event_id_unique", "actor_id_unique", "eventtype_code_unique",
       "location_id_unique", "cameo_actor_type_unique" >>

\* the names of the list indexes, in order
IndexStatements ==
    << "event_temporal", "event_julian", "event_type", "actor_cameo", "actor_name",
       "eventtype_category", "location_spatial", "location_country" >>

\* the statements in the order of the two loops
SchemaStatements == ConstraintStatements \o IndexStatements

IsConstraint(k) == k <= Len(ConstraintStatements)

\* the constraints and indexes of the store
SchemaOf(s, sch) == s.constraints \cup sch.indexes

\* a caller calls create_schema
SchemaCall ==
    /\ pc = "schema"
    /\ schema.pos = 0
    /\ Len(schema.history) < MaxSchemaRuns
    /\ schema' = [ schema EXCEPT !.pos = 1, !.issued = <<>>, !.failed = <<>>,
                                 !.warnings = <<>> ]
    /\ UNCHANGED << file, batch_size, pc, coreVars, temporalVars, actor_ids, validationVars, afterSchema >>

\* session.run(statement) returns: CREATE ... IF NOT EXISTS adds the
\* constraint or index when the store does not have it
SchemaRun ==
    /\ pc = "schema"
    /\ schema.pos \in 1..Len(SchemaStatements)
    /\ LET name == SchemaStatements[schema.pos]
       IN /\ store' = IF IsConstraint(schema.pos)
                      THEN [ store EXCEPT !.constraints = @ \cup { name } ]
                      ELSE store
          /\ schema' = [ schema EXCEPT !.pos = @ + 1,
                                       !.issued = Append(@, name),
                                       !.indexes = IF IsConstraint(schema.pos)
                                                   THEN @ ELSE @ \cup { name } ]
    /\ UNCHANGED << file, batch_size, pc, attempt, parser, yielded, loadVars, ontologyVars,
                    raised, temporalVars, actor_ids, validationVars, afterSchema >>

\* the except branch that escalates the failure of a statement
SchemaFail_Escalates ==
    /\ pc = "schema"
    /\ schema.pos \in 1..Len(SchemaStatements)
    /\ schema.faults < MaxSchemaFaults
    /\ LET name == SchemaStatements[schema.pos]
       IN schema' = [ schema EXCEPT !.pos = Len(SchemaStatements) + 1,
                                    !.issued = Append(@, name),
                                    !.failed = Append(@, name),
                                    !.faults = @ + 1,
                                    !.raised = TRUE ]
    /\ UNCHANGED << file, batch_size, pc, coreVars, temporalVars, actor_ids, validationVars, afterSchema >>

\* session.run(statement) raises: the except branch logs a warning and the
\* loop goes on
SchemaFail ==
    /\ pc = "schema"
    /\ schema.pos \in 1..Len(SchemaStatements)
    /\ schema.faults < MaxSchemaFaults
    /\ LET name == SchemaStatements[schema.pos]
       IN schema' = [ schema EXCEPT !.pos = @ + 1,
                                    !.issued = Append(@, name),
                                    !.failed = Append(@, name),
                                    !.faults = @ + 1,
                                    !.warnings = Append(@, IF IsConstraint(schema.pos)
                                                           THEN "constraint_exists"
                                                           ELSE "index_exists") ]
    /\ UNCHANGED << file, batch_size, pc, coreVars, temporalVars, actor_ids, validationVars, afterSchema >>

\* both loops have ended: create_schema returns
SchemaReturn ==
    /\ pc = "schema"
    /\ schema.pos = Len(SchemaStatements) + 1
    /\ schema' = [ schema EXCEPT !.pos = 0,
                                 !.history = Append(@, [ issued |-> schema.issued,
                                                         failed |-> schema.failed,
                                                         warnings |-> schema.warnings,
                                                         raised |-> schema.raised,
                                                         after |-> SchemaOf(store, schema) ]) ]
    /\ UNCHANGED << file, batch_size, pc, coreVars, temporalVars, actor_ids, validationVars, afterSchema >>

InitSchema ==
    /\ file = <<>>
    /\ batch_size = 1
    /\ pc = "schema"
    /\ ontology = NoOntology
    /\ InitCommon

NextSchema == SchemaCall \/ SchemaRun \/ SchemaFail \/ SchemaReturn

SpecSchema == InitSchema /\ [][NextSchema]_vars

\* C15 as stated: every run of create_schema issues the 13 statements in
\* order, logs one warning for each failed statement and does not raise,
\* and a run after another leaves the set of constraints and indexes the
\* earlier run left.
C15_RerunLeavesSameSet ==
    /\ \A r \in 1..Len(schema.history) :
          /\ schema.history[r].issued = SchemaStatements
          /\ Len(schema.history[r].warnings) = Len(schema.history[r].failed)
          /\ ~schema.history[r].raised
    /\ \A r \in 2..Len(schema.history) :
          schema.history[r].after = schema.history[r - 1].after

\* C15, amended: every run of create_schema issues the 13 statements in
\* order, logs one warning for each failed statement, does not raise and
\* leaves in the store every constraint and index whose statement did not
\* fail; a run after another keeps what the earlier run left, and leaves
\* the same set when no statement of the earlier run failed.
C15_StatementsIndependent ==
    /\ \A r \in 1..Len(schema.history) :
          LET run == schema.history[r]
          IN /\ run.issued = SchemaStatements
             /\ Len(run.warnings) = Len(run.failed)
             /\ ~run.raised
             /\ \A k \in 1..Len(SchemaStatements) :
                   (\A f \in 1..Len(run.failed) : run.failed[f] # SchemaStatements[k])
                      => SchemaStatements[k] \in run.after
             /\ run.after \subseteq { SchemaStatements[k] : k \in 1..Len(SchemaStatements) }
    /\ \A r \in 2..Len(schema.history) :
          /\ schema.history[r - 1].after \subseteq schema.history[r].after
          /\ schema.history[r - 1].failed = <<>>
                => schema.history[r].after = schema.history[r - 1].after

\* a run in which the second constraint statement and an index statement
\* failed has ended with the other eleven in the store, and a second run
\* has ended
C15_Witness ==
    /\ Len(schema.history) = 2
    /\ schema.history[1].failed = << "actor_id_unique", "event_type" >>
    /\ schema.history[1].warnings = << "constraint_exists", "index_exists" >>
    /\ Cardinality(schema.history[1].after) = 11
    /\ Cardinality(schema.history[2].after) = 13

(***************************************************************************)
(* main of scripts/ingest_data.py. The calls on the loader are single      *)
(* steps that record that statements were issued; a call that raises has   *)
(* issued statements before.                                               *)
(***************************************************************************)
\* sys.exit(status) at a stage, or the return of main (status 0)
Exit(p, status) == [ p EXCEPT !.stage = "exited", !.exit = Some(status) ]

PipelineUnchanged ==
    UNCHANGED << file, pc, coreVars, temporalVars, actor_ids, validationVars, schema,
                 afterPipeline >>

\* parse_args, then validate_data_files
MainStart ==
    /\ pc = "main"
    /\ pipeline.stage = "start"
    /\ batch_size' \in 1..MaxBatchSize
    /\ \E skip_validation, validate_only, skip_cameo, all_exist \in BOOLEAN :
          LET p == [ pipeline EXCEPT !.skip_validation = skip_validation,
                                     !.validate_only = validate_only,
                                     !.skip_cameo = skip_cameo ]
          IN pipeline' = IF all_exist
                         THEN [ p EXCEPT !.stage = "validate" ]
                         ELSE Exit(p, 1)
    /\ PipelineUnchanged

\* a validation block that logs a failed validation and goes on
MainValidate_IgnoresInvalid ==
    /\ pc = "main"
    /\ pipeline.stage = "validate"
    /\ \E is_valid \in BOOLEAN :
          LET p == [ pipeline EXCEPT !.is_valid = Some(is_valid) ]
          IN pipeline' =
               IF pipeline.skip_validation THEN [ pipeline EXCEPT !.stage = "connect" ]
               ELSE IF is_valid /\ pipeline.validate_only THEN Exit(p, 0)
               ELSE [ p EXCEPT !.stage = "connect" ]
    /\ UNCHANGED batch_size
    /\ PipelineUnchanged

\* the schema validation, unless skipped; is_valid is the result of
\* validate_and_report when it ran
MainValidate ==
    /\ pc = "main"
    /\ pipeline.stage = "validate"
    /\ \E is_valid \in BOOLEAN :
          LET p == [ pipeline EXCEPT !.is_valid = Some(is_valid) ]
          IN pipeline' =
               IF pipeline.skip_validation THEN [ pipeline EXCEPT !.stage = "connect" ]
               ELSE IF ~is_valid THEN Exit(p, 1)
               ELSE IF pipeline.validate_only THEN Exit(p, 0)
               ELSE [ p EXCEPT !.stage = "connect" ]
    /\ UNCHANGED batch_size
    /\ PipelineUnchanged

\* Neo4jLoader(...), first statement of _connect: GraphDatabase.driver
\* gives the driver, or raises for a URI it cannot use; _connect logs and
\* raises again and main exits with status 1
ConstructLoader ==
    /\ pc = "main"
    /\ pipeline.stage = "connect"
    /\ \E uri_ok \in BOOLEAN :
          pipeline' =
             IF uri_ok
             THEN [ pipeline EXCEPT !.stage = "verify", !.driver = "open" ]
             ELSE Exit([ pipeline EXCEPT !.connect = "failed" ], 1)
    /\ UNCHANGED batch_size
    /\ PipelineUnchanged

\* a _connect that does not verify connectivity
VerifyConnectivity_Skipped ==
    /\ pc = "main"
    /\ pipeline.stage = "verify"
    /\ \E reachable \in BOOLEAN :
          pipeline' = [ pipeline EXCEPT !.stage = "schema",
                                        !.connect = IF reachable THEN "verified"
                                                    ELSE "failed" ]
    /\ UNCHANGED batch_size
    /\ PipelineUnchanged

\* second statement of _connect: driver.verify_connectivity() raises when
\* the store is unreachable; _connect logs and raises again and main exits
\* with status 1
VerifyConnectivity ==
    /\ pc = "main"
    /\ pipeline.stage = "verify"
    /\ \E reachable \in BOOLEAN :
          pipeline' =
             IF reachable
             THEN [ pipeline EXCEPT !.stage = "schema", !.connect = "verified" ]
             ELSE Exit([ pipeline EXCEPT !.connect = "failed" ], 1)
    /\ UNCHANGED batch_size
    /\ PipelineUnchanged

\* loader.create_schema(): returns (a failed statement is a warning), or
\* raises when no session can be opened; an exception reaches except
\* Exception, finally closes the loader
MainCreateSchema ==
    /\ pc = "main"
    /\ pipeline.stage = "schema"
    /\ \E raises \in BOOLEAN :
          LET p == [ pipeline EXCEPT !.issued = Append(@, "schema") ]
          IN pipeline' = IF raises
                         THEN Exit([ p EXCEPT !.driver = "closed" ], 1)
                         ELSE [ p EXCEPT !.stage = IF pipeline.skip_cameo
                                                   THEN "events" ELSE "ontology" ]
    /\ UNCHANGED batch_size
    /\ PipelineUnchanged

\* loader.load_cameo_ontology(cameo_dir): returns or raises; an exception
\* reaches except Exception, finally closes the loader
MainLoadOntology ==
    /\ pc = "main"
    /\ pipeline.stage = "ontology"
    /\ \E raises \in BOOLEAN :
          LET p == [ pipeline EXCEPT !.issued = Append(@, "ontology") ]
          IN pipeline' = IF raises
                         THEN Exit([ p EXCEPT !.driver = "closed" ], 1)
                         ELSE [ p EXCEPT !.stage = "events" ]
    /\ UNCHANGED batch_size
    /\ PipelineUnchanged

\* loader.load_events(speed_csv, batch_size): returns or raises
MainLoadEvents ==
    /\ pc = "main"
    /\ pipeline.stage = "events"
    /\ \E raises \in BOOLEAN :
          LET p == [ pipeline EXCEPT !.issued = Append(@, "events") ]
          IN pipeline' = IF raises
                         THEN Exit([ p EXCEPT !.driver = "closed" ], 1)
                         ELSE [ p EXCEPT !.stage = "stats" ]
    /\ UNCHANGED batch_size
    /\ PipelineUnchanged

\* loader.get_stats() and the summary: main returns, or the call raises;
\* finally closes the loader on both paths
MainGetStats ==
    /\ pc = "main"
    /\ pipeline.stage = "stats"
    /\ \E raises \in BOOLEAN :
          LET p == [ pipeline EXCEPT !.issued = Append(@, "stats"), !.driver = "closed" ]
          IN pipeline' = IF raises THEN Exit(p, 1) ELSE Exit(p, 0)
    /\ UNCHANGED batch_size
    /\ PipelineUnchanged

InitPipeline ==
    /\ file = <<>>
    /\ batch_size = 1
    /\ pc = "main"
    /\ ontology = NoOntology
    /\ InitCommon

NextPipeline ==
    \/ MainStart
    \/ MainValidate
    \/ ConstructLoader
    \/ VerifyConnectivity
    \/ MainCreateSchema
    \/ MainLoadOntology
    \/ MainLoadEvents
    \/ MainGetStats

SpecPipeline == InitPipeline /\ [][NextPipeline]_vars

\* C16: the pipeline goes on after the construction of the loader only
\* when the connectivity was verified; when the store was unreachable the
\* script has exited with status 1 and no schema, ontology or event
\* statement was ever issued.
C16_UnreachableStoreStopsPipeline ==
    /\ pipeline.stage \in { "schema", "ontology", "events", "stats" } =>
          pipeline.connect = "verified" /\ pipeline.driver = "open"
    /\ pipeline.issued # <<>> => pipeline.connect = "verified"
    /\ pipeline.connect = "failed" =>
          /\ pipeline.stage = "exited"
          /\ pipeline.exit = Some(1)
          /\ pipeline.issued = <<>>

\* the construction failed on an unreachable store and the script exited
C16_Witness ==
    /\ pipeline.connect = "failed"
    /\ pipeline.driver = "open"
    /\ pipeline.stage = "exited"
    /\ pipeline.exit = Some(1)

(***************************************************************************)
(* The event-type hierarchy of the parsed ontology, as load_cameo_ontology *)
(* builds it.                                                              *)
(***************************************************************************)
\* the hierarchy maps the code p to a list that contains the code c
Maps(items, p, c) == \E i \in 1..Len(items) : items[i].parent = p /\ items[i].child = c

\* the codes of the parsed event types
ParsedCodes == { ontology.event_types[i].code : i \in 1..Len(ontology.event_types) }

\* a code with its last character removed
ButLast(code) == SubSeq(code, 1, Len(code) - 1)

\* the codes of the parsed event types and the codes one character shorter
CodeUniverse == ParsedCodes \cup { ButLast(c) : c \in { d \in ParsedCodes : d # <<>> } }

\* load_cameo_ontology has built the hierarchy
HierarchyBuilt == pc = "actor_types" \/ ontologyRuns >= 1

\* C17 as stated: the hierarchy maps P to a list containing C exactly when
\* both are codes of parsed event types and P is C with its last character
\* removed.
C17_ParentIffBothParsed ==
    HierarchyBuilt =>
        \A p, c \in CodeUniverse :
            Maps(build_event_hierarchy(ontology.event_types), p, c)
               <=> (p \in ParsedCodes /\ c \in ParsedCodes /\ c # <<>> /\ p = ButLast(c))

\* C17, amended: the hierarchy maps P to a list containing C exactly when C
\* is the code of a parsed event type, C has more than 2 characters and P
\* is C with its last character removed (P need not be a parsed code).
C17_ParentIffChildLonger ==
    HierarchyBuilt =>
        \A p, c \in CodeUniverse :
            Maps(build_event_hierarchy(ontology.event_types), p, c)
               <=> (c \in ParsedCodes /\ Len(c) > 2 /\ p = ButLast(c))

\* the event types 01 and 010 were parsed and give the mapping 01 -> [010]
C17_Witness ==
    /\ HierarchyBuilt
    /\ ParsedCodes = { S2("0", "1"), S3("0", "1", "0") }
    /\ build_event_hierarchy(ontology.event_types)
         = << [ parent |-> S2("0", "1"), child |-> S3("0", "1", "0") ] >>

(***************************************************************************)
(* The classification properties of CAMEOEventType read on event types.    *)
(***************************************************************************)
MaxClassified == 2

\* inputs: codes of event types
CodeTexts ==
    { <<>>, S1("5"), S2("0", "0"), S2("0", "1"), S2("0", "5"), S2("0", "9"),
      S2("1", "0"), S2("1", "4"), S2("1", "5"), S2("1", "8"), S2("2", "0"),
      S2("2", "1"), S2("9", "9"), S2("a", "b"), S2("1", "a"),
      S4("0", "1", "1", "1"), S4("1", "8", "2", "3"), S3("2", "0", "0") }

\* a caller reads root_category and the four properties of an event type
Classify ==
    /\ pc = "classify"
    /\ Len(classified) < MaxClassified
    /\ \E code \in CodeTexts :
          LET et == EventTypeOf(code, "")
          IN classified' = Append(classified,
                 [ code |-> code,
                   root_category |-> root_category(et),
                   is_cooperation |-> is_cooperation(et),
                   is_conflict |-> is_conflict(et),
                   is_material |-> is_material(et),
                   is_verbal |-> is_verbal(et) ])
    /\ UNCHANGED << file, batch_size, pc, coreVars, temporalVars, actor_ids,
                    validationVars, schema, pipeline, afterClassify >>

InitClassify ==
    /\ file = <<>>
    /\ batch_size = 1
    /\ pc = "classify"
    /\ ontology = NoOntology
    /\ InitCommon

NextClassify == Classify

SpecClassify == InitClassify /\ [][NextClassify]_vars

\* the first two characters of a code (the code when it is shorter) as a
\* number, None when they are not decimal digits
RootNumber(code) ==
    LET root == SubSeq(code, 1, IF Len(code) < 2 THEN Len(code) ELSE 2)
    IN IF root # <<>> /\ \A i \in 1..Len(root) : root[i] \in Digits
       THEN Some(DecVal(root)) ELSE None

Backquote == "backquote"

UpperChar(c) ==
    CASE c = "a" -> "A" [] c = "b" -> "B" [] c = "c" -> "C" [] c = "d" -> "D" []
      c = "e" -> "E" [] c = "f" -> "F" [] c = "g" -> "G" [] c = "h" -> "H" []
      c = "i" -> "I" [] c = "j" -> "J" [] c = "k" -> "K" [] c = "l" -> "L" []
      c = "m" -> "M" [] c = "n" -> "N" [] c = "o" -> "O" [] c = "p" -> "P" []
      c = "q" -> "Q" [] c = "r" -> "R" [] c = "s" -> "S" [] c = "t" -> "T" []
      c = "u" -> "U" [] c = "v" -> "V" [] c = "w" -> "W" [] c = "x" -> "X" []
      c = "y" -> "Y" [] c = "z" -> "Z"
      [] OTHER -> c

\* str.upper()
Upper(s) == <<>> \o [ i \in 1..Len(s) |-> UpperChar(s[i]) ]

\* text[a-1:b], which stops at the end of the text
Slice(text, a, b) == SubSeq(text, a, IF b > Len(text) THEN Len(text) ELSE b)

\* keyword in text
Contains(text, keyword) ==
    \E i \in 1..(Len(text) - Len(keyword) + 1) :
        SubSeq(text, i, i + Len(keyword) - 1) = keyword

forbidden_keywords ==
    << << "D", "E", "L", "E", "T", "E" >>, << "R", "E", "M", "O", "V", "E" >>, << "D", "R", "O", "P" >>,
       << "D", "E", "T", "A", "C", "H", " ", "D", "E", "L", "E", "T", "E" >>,
       << "S", "E", "T" >>, << "C", "R", "E", "A", "T", "E" >>, << "M", "E", "R", "G", "E" >> >>

\* the end of the longest run of characters of a set that starts at i
RECURSIVE RunEnd(_, _, _)
RunEnd(text, i, chars) ==
    IF i <= Len(text) /\ text[i] \in chars THEN RunEnd(text, i + 1, chars) ELSE i

\* re.search(r'LIMIT\s+(\d+)', text): the number of the first match, None
\* when there is no match
LimitOf(text) ==
    LET kw == << "L", "I", "M", "I", "T" >>
        DigitsFrom(i) == RunEnd(text, RunEnd(text, i + 5, { " ", "\n" }), Digits)
        matches == { i \in 1..Len(text) :
                       /\ Slice(text, i, i + 4) = kw
                       /\ RunEnd(text, i + 5, { " ", "\n" }) > i + 5
                       /\ DigitsFrom(i) > RunEnd(text, i + 5, { " ", "\n" }) }
    IN IF matches = {} THEN None
       ELSE LET i == CHOOSE m \in matches : \A o \in matches : m <= o
            IN Some(DecVal(SubSeq(text, RunEnd(text, i + 5, { " ", "\n" }),
                                  DigitsFrom(i) - 1)))

\* CypherGenerator._validate_security: (is_valid, error_message)
_validate_security(cypher) ==
    LET cypher_upper == Upper(cypher)
        found == { k \in 1..Len(forbidden_keywords) :
                     Contains(cypher_upper, forbidden_keywords[k]) }
    IN IF found # {}
       THEN [ is_valid |-> FALSE, error |-> "Forbidden operation" ]
       ELSE IF LimitOf(cypher_upper) # None /\ Val(LimitOf(cypher_upper)) > 1000
       THEN [ is_valid |-> FALSE, error |-> "LIMIT too high" ]
       ELSE [ is_valid |-> TRUE, error |-> "" ]

\* re.sub of an opening fence (three backquotes, an optional word cypher,
\* an optional newline) at the start of the text
DropOpeningFence(text) ==
    LET fence == << Backquote, Backquote, Backquote >>
        word == << "c", "y", "p", "h", "e", "r" >>
        a == IF Slice(text, 1, 3) = fence THEN 4 ELSE 1
        b == IF a = 4 /\ Slice(text, a, a + 5) = word THEN a + 6 ELSE a
        c == IF a = 4 /\ b <= Len(text) /\ text[b] = "\n" THEN b + 1 ELSE b
    IN SubSeq(text, c, Len(text))

\* re.sub of a closing fence (an optional newline, three backquotes) at
\* the end of the text
DropClosingFence(text) ==
    LET fence == << Backquote, Backquote, Backquote >>
        n == Len(text)
    IN IF n >= 3 /\ SubSeq(text, n - 2, n) = fence
       THEN IF n >= 4 /\ text[n - 3] = "\n" THEN SubSeq(text, 1, n - 4)
            ELSE SubSeq(text, 1, n - 3)
       ELSE text

\* str.rstrip(';')
RECURSIVE RStripSemicolon(_)
RStripSemicolon(s) ==
    IF s # <<>> /\ s[Len(s)] = ";" THEN RStripSemicolon(SubSeq(s, 1, Len(s) - 1)) ELSE s

\* CypherGenerator.generate after the API call returned the text response:
\* (cypher_query, is_valid, error_message)
generate(response) ==
    LET cypher == Strip(DropClosingFence(DropOpeningFence(Strip(response))))
        checked == _validate_security(cypher)
    IN IF ~checked.is_valid
       THEN [ cypher |-> cypher, is_valid |-> FALSE, error |-> checked.error ]
       ELSE IF ~Contains(Upper(cypher), << "L", "I", "M", "I", "T" >>)
       THEN [ cypher |-> RStripSemicolon(cypher) \o << "\n", "L", "I", "M", "I", "T", " ", "1", "0", "0" >>,
              is_valid |-> TRUE, error |-> "" ]
       ELSE [ cypher |-> cypher, is_valid |-> TRUE, error |-> "" ]

\* inputs: the text of the response of the API call
Responses ==
    { << "M", "A", "T", "C", "H", " ", "(", "n", ")", " ", "d", "e", "t", "a", "c", "h", " ", "d", "e", "l", "e", "t", "e", " ", "n" >>,
      << " ", "R", "E", "T", "U", "R", "N", " ", "2", " ", "l", "i", "m", "i", "t", " ", "1", "0", "0", "1" >>,
      << "R", "E", "T", "U", "R", "N", " ", "n", ".", "n", "a", "m", "e", ";", ";" >>,
      << "R", "E", "T", "U", "R", "N", " ", "1" >>,
      << "R", "E", "T", "U", "R", "N", " ", "1", ";" >>,
      << "R", "E", "T", "U", "R", "N", " ", "n", " ", "L", "I", "M", "I", "T", " ", "5" >>,
      << "R", "E", "T", "U", "R", "N", " ", "n", " ", "L", "I", "M", "I", "T", " ", "5", "0", "0", "0" >>,
      << "m", "a", "t", "c", "h", " ", "(", "n", ")", " ", "d", "e", "l", "e", "t", "e", " ", "n" >>,
      << "M", "A", "T", "C", "H", " ", "(", "n", ")", " ", "D", "e", "L", "e", "T", "e", " ", "n" >>,
      << "M", "A", "T", "C", "H", " ", "(", "n", ")", " ", "R", "E", "M", "O", "V", "E", " ", "n", ".", "x" >>,
      << "d", "r", "o", "p", " ", "i", "n", "d", "e", "x", " ", "i" >>,
      << "M", "A", "T", "C", "H", " ", "(", "n", ")", " ", "S", "E", "T", " ", "n", ".", "x", "=", "1" >>,
      << "C", "r", "e", "a", "t", "e", " ", "(", "n", ")" >>,
      << "m", "e", "r", "g", "e", " ", "(", "n", ")" >>,
      << "R", "E", "T", "U", "R", "N", " ", "n", ".", "d", "a", "t", "a", "s", "e", "t" >>,
      << Backquote, Backquote, Backquote, "\n", "D", "R", "O", "P", " ", "x", "\n", Backquote, Backquote, Backquote >> }

AgentUnchanged ==
    UNCHANGED << file, batch_size, pc, coreVars, temporalVars, actor_ids,
                 validationVars, schema, pipeline, classified >>

\* add_trace(step_name, ...)
Trace(state, name) == [ state EXCEPT !.trace = Append(@, name) ]

\* query(user_query): the workflow starts at its entry point
AgentQuery ==
    /\ pc = "agent"
    /\ agent.node = ""
    /\ agent' = [ agent EXCEPT !.node = "parse_intent" ]
    /\ AgentUnchanged

\* node parse_intent: the intent of the classifier, or the fallback when
\* the classifier raises
ParseIntent ==
    /\ pc = "agent"
    /\ agent.node = "parse_intent"
    /\ \E intent \in { "fact_lookup", "pattern_analysis" }, raises \in BOOLEAN :
          agent' = [ Trace(agent, "parse_intent") EXCEPT
                       !.intent = IF raises THEN "pattern_analysis" ELSE intent,
                       !.node = "generate_cypher" ]
    /\ AgentUnchanged

\* the result of generate for each response text of the API
Generated == [ response \in Responses |-> generate(response) ] @@ << >>

\* node generate_cypher: the result of generate, where the API call
\* returns a response or raises
GenerateCypher ==
    /\ pc = "agent"
    /\ agent.node = "generate_cypher"
    /\ \/ \E response \in Responses :
             LET g == Generated[response]
             IN agent' = [ Trace(agent, "generate_cypher") EXCEPT
                             !.cypher_query = g.cypher,
                             !.cypher_valid = g.is_valid,
                             !.cypher_error = g.error,
                             !.cypher_attempts = @ + 1,
                             !.node = "should_execute_or_error" ]
       \/ agent' = [ Trace(agent, "generate_cypher") EXCEPT
                       !.cypher_valid = FALSE,
                       !.cypher_error = "API error",
                       !.cypher_attempts = @ + 1,
                       !.node = "should_execute_or_error" ]
    /\ AgentUnchanged

\* a conditional edge that always takes the branch execute
ShouldExecuteOrError_AlwaysExecute ==
    /\ pc = "agent"
    /\ agent.node = "should_execute_or_error"
    /\ agent' = [ agent EXCEPT !.node = "execute_query" ]
    /\ AgentUnchanged

\* the conditional edge after generate_cypher: _should_execute_or_error
ShouldExecuteOrError ==
    /\ pc = "agent"
    /\ agent.node = "should_execute_or_error"
    /\ agent' = [ agent EXCEPT !.node = IF agent.cypher_valid
                                        THEN "execute_query" ELSE "handle_error" ]
    /\ AgentUnchanged

\* node execute_query: retrieve runs state.cypher_query against the store
\* and returns or raises
ExecuteQuery ==
    /\ pc = "agent"
    /\ agent.node = "execute_query"
    /\ \E raises \in BOOLEAN :
          agent' = [ Trace(agent, "execute_query") EXCEPT
                       !.executed = Append(@, agent.cypher_query),
                       !.error = IF raises THEN "execution error" ELSE @,
                       !.node = "reason" ]
    /\ AgentUnchanged

\* a node reason whose except branch leaves final_response unset
Reason_NoResponseOnError ==
    /\ pc = "agent"
    /\ agent.node = "reason"
    /\ \E raises \in BOOLEAN :
          agent' = [ Trace(agent, "reason") EXCEPT
                       !.error = IF raises THEN "reasoning error" ELSE @,
                       !.final_response = IF raises THEN @ ELSE "response",
                       !.node = "END" ]
    /\ AgentUnchanged

\* node reason, then END
Reason ==
    /\ pc = "agent"
    /\ agent.node = "reason"
    /\ \E raises \in BOOLEAN :
          agent' = [ Trace(agent, "reason") EXCEPT
                       !.error = IF raises THEN "reasoning error" ELSE @,
                       !.final_response = IF raises THEN "I encountered an error"
                                          ELSE "response",
                       !.node = "END" ]
    /\ AgentUnchanged

\* node handle_error, then END
HandleError ==
    /\ pc = "agent"
    /\ agent.node = "handle_error"
    /\ agent' = [ Trace(agent, "handle_error") EXCEPT
                    !.final_response = "I encountered an error",
                    !.node = "END" ]
    /\ AgentUnchanged

InitAgent ==
    /\ file = <<>>
    /\ batch_size = 1
    /\ pc = "agent"
    /\ ontology = NoOntology
    /\ InitCommon

NextAgent ==
    \/ AgentQuery
    \/ ParseIntent
    \/ GenerateCypher
    \/ ShouldExecuteOrError
    \/ ExecuteQuery
    \/ Reason
    \/ HandleError

SpecAgent == InitAgent /\ [][NextAgent]_vars

\* the mutating keywords of the claim
MutatingKeywords ==
    { << "D", "E", "L", "E", "T", "E" >>, << "R", "E", "M", "O", "V", "E" >>, << "D", "R", "O", "P" >>, << "S", "E", "T" >>,
      << "C", "R", "E", "A", "T", "E" >>, << "M", "E", "R", "G", "E" >> }

\* the text holds the keyword in some mix of upper and lower case
HoldsKeyword(text, keyword) ==
    \E i \in 1..(Len(text) - Len(keyword) + 1) :
        \A j \in 1..Len(keyword) : UpperChar(text[i + j - 1]) = keyword[j]

Visited(name) == \E i \in 1..Len(agent.trace) : agent.trace[i] = name

\* C19: a query is run against the store only when its validation passed,
\* and it is the generated query; a generated query that holds DELETE,
\* REMOVE, DROP, SET, CREATE or MERGE in any case is marked invalid, the
\* workflow goes from its generation to handle_error, and execute_query is
\* never reached.
C19_OnlyValidQueriesRun ==
    /\ (agent.executed # <<>> \/ agent.node = "execute_query" \/ Visited("execute_query")) =>
          /\ agent.cypher_valid
          /\ agent.executed \in { <<>>, << agent.cypher_query >> }
    /\ (agent.cypher_attempts > 0
        /\ \E k \in MutatingKeywords : HoldsKeyword(agent.cypher_query, k)) =>
          /\ ~agent.cypher_valid
          /\ agent.executed = <<>>
          /\ agent.node \in { "should_execute_or_error", "handle_error", "END" }
          /\ ~Visited("execute_query")
          /\ agent.node = "END" => Visited("handle_error")

\* a generated query with a lower-case delete went to handle_error
C19_Witness ==
    /\ agent.node = "END"
    /\ agent.cypher_query = << "m", "a", "t", "c", "h", " ", "(", "n", ")", " ", "d", "e", "l", "e", "t", "e", " ", "n" >>
    /\ ~agent.cypher_valid
    /\ Visited("handle_error")
    /\ agent.executed = <<>>

(***************************************************************************)
(* The retry wrapper of load_events and the type of the exception.         *)
(***************************************************************************)
\* C20: an attempt of load_events that raised has left an exception, of
\* the source file or of the store; while fewer than 3 attempts were made
\* the retry wrapper can take its step whatever the exception is, and the
\* step after the exception is another attempt that starts the whole
\* operation anew.
C20_EveryExceptionRetried ==
    /\ [](pc = "failed" =>
            /\ raised \in { "FileNotFoundError", "OSError", "ServiceUnavailable" }
            /\ attempt < MaxAttempts => ENABLED Retry)
    /\ [][ (pc = "failed" /\ attempt < MaxAttempts) =>
             /\ attempt' = attempt + 1
             /\ raised' = ""
             /\ pc' = "parse" /\ parser' = NewParser /\ batch' = <<>>
             /\ total_loaded' = 0 /\ ~streamDone' ]_vars

\* the second attempt, made after the first raised, has raised for a
\* missing source file and an attempt remains
C20_Witness ==
    /\ attempt = 2
    /\ pc = "failed"
    /\ raised = "FileNotFoundError"

(***************************************************************************)
(* load_events against the store the steps before it leave: create_schema  *)
(* logs a failed constraint statement as a warning and goes on, so the     *)
(* store may lack event_id_unique, and load_cameo_ontology may have        *)
(* written EventType nodes.                                                *)
(***************************************************************************)
MaxIngestRows == 1

IngestFiles == { f \in LoadFiles : Len(f) <= MaxIngestRows }

\* ontologies of one event type whose code is, or is not, the decimal
\* string of the event type of RowE1
IngestOntologies ==
    { [ event_types |-> <<EventTypeOf(S1("1"), "Political expression")>>,
        actor_types |-> <<>> ],
      [ event_types |-> <<EventTypeOf(S2("0", "1"), "Make public statement")>>,
        actor_types |-> <<>> ] }

InitIngest ==
    /\ file \in IngestFiles
    /\ batch_size \in 1..MaxBatchSize
    /\ pc = "new"
    /\ ontology = NoOntology
    /\ InitCommon

\* create_schema in which the statement of event_id_unique raised: the
\* except branch logs constraint_exists and the loop goes on
CreateSchemaWarned ==
    /\ pc = "new"
    /\ store' = [ store EXCEPT !.constraints = @ \cup (SchemaConstraints \ {"event_id_unique"}) ]
    /\ pc' = "ready"
    /\ UNCHANGED << file, batch_size, otherVars, attempt, parser, yielded, loadVars, ontologyVars >>

\* load_cameo_ontology before load_events: _load_event_types
LoadCameoEventTypes ==
    /\ pc = "ready"
    /\ ontology = NoOntology
    /\ ontology' \in IngestOntologies
    /\ store' = _load_event_types(store, ontology'.event_types,
                                  build_event_hierarchy(ontology'.event_types))
    /\ pc' = "ready"
    /\ UNCHANGED << file, batch_size, otherVars, attempt, parser, yielded, loadVars, ontologyRuns >>

NextIngest ==
    \/ CreateSchema
    \/ CreateSchemaWarned
    \/ LoadCameoEventTypes
    \/ LoadEventsCall
    \/ ParseRow
    \/ StreamFail
    \/ ParseEnd
    \/ BeginTx
    \/ LoadEvent
    \/ Commit
    \/ CommitFail
    \/ CreateEventLinks
    \/ Pass2Fail
    \/ Retry
    \/ Escalate

SpecIngest == InitIngest /\ [][NextIngest]_vars

(***************************************************************************)
(* The role edges of Pass 1 (_create_actor_relationships).                 *)
(***************************************************************************)
RoleRelTypes == { RoleRelType(role) : role \in Roles }

\* positions of the Actor nodes the role block of an Event matches
RoleActors(s, event, role) ==
    Match(s, "Actor", "actorId",
          generate_actor_id(Val(primary_name(Val(event[role])))))

\* number of edges of the role between an Event node and an Actor node
RoleEdges(s, role, e, a) == Cardinality(MatchRel(s, RoleRelType(role), e, a))

\* the actor step of batch[txIdx] runs for a role whose Event node e and
\* Actor node a are connected before the step
RanAgain(role, e, a) ==
    /\ RoleIssued(batch[txIdx], role)
    /\ e \in Match(Tx, "Event", "eventId", batch[txIdx].event_id)
    /\ a \in RoleActors(Tx, batch[txIdx], role)
    /\ RoleEdges(Tx, role, e, a) >= 1

\* C21 as stated: running the actor step again for an Event node and an
\* Actor node that are already connected adds a second edge of the same
\* role between them.
C21_RerunAddsSecondEdge ==
    [][ LoadedWithoutError =>
          \A role \in Roles : \A e \in 1..Len(Tx.Event) : \A a \in 1..Len(Tx.Actor) :
              RanAgain(role, e, a) =>
                  RoleEdges(TxAfter, role, e, a) = RoleEdges(Tx, role, e, a) + 1 ]_vars

\* C21: for each actor role present on an Event, Pass 1 merges the
\* role-specific edge from the Event to its Actor node: no store state holds
\* two edges of one role between the same Event node and Actor node, and
\* running the actor step again for an Event node and an Actor node that are
\* already connected adds no edge between them and sets the edge attributes
\* to those of the Event under load.
C21_RoleEdgeMerged ==
    /\ [](\A s \in Stores : \A x, y \in 1..Len(s.rels) :
            ( /\ s.rels[x].type \in RoleRelTypes
              /\ s.rels[x].type = s.rels[y].type
              /\ s.rels[x].from = s.rels[y].from
              /\ s.rels[x].to = s.rels[y].to ) => x = y)
    /\ [][ LoadedWithoutError =>
             \A role \in Roles : \A e \in 1..Len(Tx.Event) : \A a \in 1..Len(Tx.Actor) :
                 RanAgain(role, e, a) =>
                     /\ RoleEdges(TxAfter, role, e, a) = 1
                     /\ \A r \in MatchRel(TxAfter, RoleRelType(role), e, a) :
                            TxAfter.rels[r].props = RoleRelProps(Val(batch[txIdx][role])) ]_vars

\* a retried load without the uniqueness constraint gave E1 a second Event
\* node; the initiator step ran for both nodes, the first of which was
\* already connected to the Actor, and the first still has one edge
C21_Witness ==
    /\ attempt >= 2
    /\ Cardinality(Match(store, "Event", "eventId", E1)) = 2
    /\ \A e \in Match(store, "Event", "eventId", E1) :
          Cardinality(MatchRel(store, "INITIATED_BY", e, 1)) = 1

(***************************************************************************)
(* What Pass 1 stores on an Event node (_create_event_node) against what   *)
(* Pass 2 reads (_create_event_links).                                     *)
(***************************************************************************)
\* the property names of the CREATE statement that the model keeps
EventNodeKeys == { "eventId", "year", "eventType", "isLinked", "linkType", "propertiesJson" }

\* names under which linkage identifiers could be stored
LinkKeys == { "properties", "FROM_EID", "TO_EID", "linked_from", "linked_to" }

\* the keys of the dict that json.dumps serialized into propertiesJson
JsonKeys(node) ==
    IF node.propertiesJson = None THEN {} ELSE DOMAIN Val(node.propertiesJson)[2]

\* C22: in every store state (committed or inside a transaction) an Event
\* node has exactly the properties the CREATE statement of Pass 1 names,
\* none of them named properties; the dict serialized into propertiesJson
\* has no FROM_EID or TO_EID key, so the linkage identifiers of the parsed
\* Event are stored nowhere on the node and the read of e.properties in
\* Pass 2 gives null for every Event.
C22_LinkIdsNotStored ==
    \A s \in Stores : \A i \in 1..Len(s.Event) :
        /\ DOMAIN s.Event[i] = EventNodeKeys
        /\ DOMAIN s.Event[i] \cap LinkKeys = {}
        /\ JsonKeys(s.Event[i]) \cap LinkKeys = {}
        /\ Prop(s.Event[i], "properties") = None

\* load_events has completed for a file whose rows E1 and E2 are linked and
\* name each other: both nodes are stored with isLinked = true, E1 with a
\* propertiesJson value, and Pass 2 found no identifier to link
C22_Witness ==
    /\ pc = "done"
    /\ \E k \in 1..Len(file) : Parsed(k) # None /\ Val(Parsed(k)).linked_to = <<E2>>
    /\ \E i, j \in 1..Len(store.Event) :
          /\ store.Event[i].eventId = E1 /\ store.Event[i].isLinked
          /\ store.Event[i].propertiesJson # None
          /\ store.Event[j].eventId = E2 /\ store.Event[j].isLinked
    /\ LinkedRels(store) = {}

(***************************************************************************)
(* The link from an Event to its event type (_link_event_type).            *)
(***************************************************************************)
OfTypeRels(s) == { i \in 1..Len(s.rels) : s.rels[i].type = "OF_TYPE" }

\* the EventType nodes whose cameoCode is str(event.event_type)
TypeNodes(s, event) ==
    Match(s, "EventType", "cameoCode", StrOfNat(Val(event.event_type)))

\* an Event of the batch is about to be loaded
AtEvent == pc = "tx" /\ txIdx <= Len(batch)

\* C23: an OF_TYPE edge runs only to an EventType node whose cameoCode is
\* the decimal string of the event_type of an Event stored under the
\* eventId of the edge's Event node (the statement matches the node by
\* eventId, so where the store holds two nodes of one eventId each is
\* linked under the event_type of either), and a load step
\* adds such edges only for the Event under load; when such an EventType
\* node exists the loaded Event is linked to
\* it; when none exists the Event is loaded without an OF_TYPE edge and the
\* only error its load can meet without a fault of the store is the one of
\* its CREATE statement; for an Event without event_type no link statement
\* is issued, so a store fault at that statement cannot occur.
C23_TypeLinkOnlyWhenMatched ==
    /\ [](\A s \in Stores : \A r \in OfTypeRels(s) :
            \E j \in 1..Len(s.Event) :
                /\ s.Event[j].eventId = s.Event[s.rels[r].from].eventId
                /\ TruthyInt(s.Event[j].eventType)
                /\ s.EventType[s.rels[r].to].cameoCode =
                       StrOfNat(Val(s.Event[j].eventType)))
    /\ [](AtEvent =>
            LET ev == batch[txIdx]
                r == TryLoadEvent(Tx, ev, "none")
            IN /\ (TypeIssued(ev) /\ TypeNodes(Tx, ev) = {}) =>
                     /\ OfTypeRels(r.store) = OfTypeRels(Tx)
                     /\ r.raised => r.error = "ConstraintError"
               /\ ~TypeIssued(ev) =>
                     /\ ~Issued(ev, "type")
                     /\ TryLoadEvent(Tx, ev, "type") = r
                     /\ OfTypeRels(r.store) = OfTypeRels(Tx))
    /\ [][ LoadedWithoutError =>
             LET ev == batch[txIdx]
             IN /\ \A r \in OfTypeRels(TxAfter) \ OfTypeRels(Tx) :
                      /\ TypeIssued(ev)
                      /\ TxAfter.Event[TxAfter.rels[r].from].eventId = ev.event_id
                      /\ TxAfter.rels[r].to \in TypeNodes(TxAfter, ev)
                /\ TypeIssued(ev) =>
                      \A e \in Match(TxAfter, "Event", "eventId", ev.event_id) :
                      \A t \in TypeNodes(Tx, ev) :
                          MatchRel(TxAfter, "OF_TYPE", e, t) # {} ]_vars

\* E1 with event_type 1 was loaded and committed without an error while the
\* store holds the EventType node 01 only: no OF_TYPE edge was created
C23_Witness ==
    /\ pc = "done"
    /\ logged = <<>>
    /\ Len(store.EventType) = 1 /\ store.EventType[1].cameoCode = S2("0", "1")
    /\ \E i \in 1..Len(store.Event) :
          store.Event[i].eventId = E1 /\ store.Event[i].eventType = Some(1)
    /\ OfTypeRels(store) = {}

\* E1 with event_type 1 is linked to the EventType node 1
C23_Linked ==
    /\ pc = "done"
    /\ \E r \in OfTypeRels(store) :
          /\ store.Event[store.rels[r].from].eventType = Some(1)
          /\ store.EventType[store.rels[r].to].cameoCode = S1("1")

(***************************************************************************)
(* Batching in Pass 1 of load_events.                                      *)
(***************************************************************************)
\* the Events the parser yields for the first n rows of the file, in order
RECURSIVE YieldedUpTo(_)
YieldedUpTo(n) ==
    IF n = 0 THEN <<>>
    ELSE IF Parsed(n) = None THEN YieldedUpTo(n - 1)
    ELSE Append(YieldedUpTo(n - 1), Val(Parsed(n)))

\* the Events appended to the batch list that were not yet passed on
Waiting == IF pc = "parse" THEN batch ELSE <<>>

\* C24: in an attempt of Pass 1 (batch_size >= 1) the batches passed to
\* _load_event_batch, one after the other, followed by the Events waiting
\* in the batch list, are exactly the Events yielded so far, each once and
\* in parser order; every batch passed on holds batch_size Events, except
\* that the last one holds 1 to batch_size - 1 Events when it is passed on
\* after the stream ended; fewer than batch_size Events wait during the
\* loop; and when the stream has ended normally and Pass 2 starts, no Event
\* waits and the batches hold the Events of all rows of the file in row
\* order.
C24_BatchesCoverYielded ==
    pc \in {"parse", "begin", "tx", "pass2", "done"} =>
        /\ Flatten(submitted) \o Waiting = yielded
        /\ \A k \in 1..Len(submitted) :
             /\ Len(submitted[k]) >= 1
             /\ \/ Len(submitted[k]) = batch_size
                \/ /\ k = Len(submitted) /\ streamDone
                   /\ Len(submitted[k]) < batch_size
        /\ Len(Waiting) < batch_size
        /\ pc \in {"begin", "tx"} => batch = submitted[Len(submitted)]
        /\ pc = "pass2" =>
             /\ parser.pos = Len(file) /\ batch = <<>>
             /\ Flatten(submitted) = YieldedUpTo(Len(file))
             /\ total_loaded = Len(yielded)

\* a first attempt with batch_size 2 has completed for a file of three
\* Events: a full batch of two, then a last batch of one
C24_Witness ==
    /\ pc = "done" /\ attempt = 1
    /\ batch_size = 2
    /\ Len(yielded) = 3
    /\ Len(submitted) = 2 /\ Len(submitted[1]) = 2 /\ Len(submitted[2]) = 1
    /\ submitted[1] \o submitted[2] = yielded

(***************************************************************************)
(* Order of the steps of main (scripts/ingest_data.py) and the two         *)
(* validation options.                                                     *)
(***************************************************************************)
\* the calls on the loader in the order main makes them
StepOrder ==
    IF pipeline.skip_cameo THEN << "schema", "events", "stats" >>
    ELSE << "schema", "ontology", "events", "stats" >>

\* the loader was constructed: Neo4jLoader(...) returned
Constructed == pipeline.connect = "verified"

\* C25: when the schema validation ran and failed, the script has exited
\* with status 1, no loader or driver was constructed and no statement was
\* issued; a statement is issued only after the loader was constructed,
\* and the calls made so far are a beginning of the order create_schema,
\* load_cameo_ontology (unless --skip-cameo), load_events, get_stats; when
\* the script has exited after the loader was constructed, the loader was
\* closed, and status 0 means every call of the order was made.
C25_ValidationGatesOrderedSteps ==
    /\ pipeline.is_valid = Some(FALSE) =>
          /\ pipeline.stage = "exited" /\ pipeline.exit = Some(1)
          /\ pipeline.driver = "" /\ pipeline.connect = ""
          /\ pipeline.issued = <<>>
    /\ pipeline.issued # <<>> => Constructed
    /\ Prefix(pipeline.issued, StepOrder)
    /\ pipeline.driver = "closed" => Constructed /\ pipeline.stage = "exited"
    /\ (pipeline.stage = "exited" /\ Constructed) =>
          /\ pipeline.driver = "closed"
          /\ pipeline.exit = Some(0) => pipeline.issued = StepOrder
    /\ (pipeline.stage # "exited" /\ Constructed) => pipeline.driver = "open"

\* the validation passed, the ontology was loaded, load_events raised and
\* the script exited with the loader closed
C25_Witness ==
    /\ pipeline.is_valid = Some(TRUE)
    /\ pipeline.issued = << "schema", "ontology", "events" >>
    /\ pipeline.stage = "exited" /\ pipeline.exit = Some(1)
    /\ pipeline.driver = "closed"

\* the validation failed and the script exited before the construction
C25_Gated ==
    /\ pipeline.is_valid = Some(FALSE)
    /\ pipeline.stage = "exited" /\ pipeline.driver = ""

\* C26: when the script is run with --validate-only, no loader is
\* constructed and no statement is sent to the store, whatever the other
\* options are.
C26_ValidateOnlyNeverLoads ==
    pipeline.validate_only => ~Constructed /\ pipeline.issued = <<>>

\* --validate-only together with --skip-validation: the validation did not
\* run and load_events was called
C26_Loaded ==
    /\ pipeline.validate_only /\ pipeline.skip_validation
    /\ pipeline.is_valid = None
    /\ pipeline.issued = << "schema", "ontology", "events" >>

(***************************************************************************)
(* A failure of the row stream in the middle of Pass 1.                    *)
(***************************************************************************)
StreamErrors == { "FileNotFoundError", "OSError" }

\* the identifiers of the Events of the batches passed on in this attempt
SubmittedIds == { Flatten(submitted)[k].event_id : k \in 1..Len(Flatten(submitted)) }

\* the attempt was left by an exception of the row stream
StreamFailed == pc = "failed" /\ raised \in StreamErrors

\* C27: the step in which the parser raises a stream-level failure leaves
\* the committed store as it is, with no transaction open: every batch
\* passed on before was committed (total_loaded counts all of them) and
\* the Events waiting in the incomplete batch list are in no transaction;
\* the attempt is over: the store stays unchanged until the next attempt
\* starts or the failure reaches the caller, so Pass 2 does not run in that
\* attempt. In the failed state the Events of the committed batches have
\* their nodes (when no statement met a store fault), and in a first
\* attempt a waiting Event whose identifier was in no committed batch has
\* no node.
C27_StreamFailureKeepsCommitted ==
    /\ [][ (raised = "" /\ raised' \in StreamErrors) =>
             /\ pc = "parse" /\ pc' = "failed"
             /\ store' = store
             /\ openTx = <<>> /\ openTx' = <<>>
             /\ batch' = batch /\ Len(batch) < batch_size
             /\ submitted' = submitted
             /\ total_loaded' = total_loaded
             /\ total_loaded = Len(Flatten(submitted)) ]_vars
    /\ [][ StreamFailed =>
             /\ store' = store
             /\ pc' \in { "failed", "parse", "escalated" }
             /\ pc' = "parse" => attempt' = attempt + 1 /\ batch' = <<>> ]_vars
    /\ [](StreamFailed =>
            /\ stmtFaults = 0 =>
                 \A id \in SubmittedIds : Match(store, "Event", "eventId", id) # {}
            /\ attempt = 1 =>
                 \A k \in 1..Len(batch) :
                     batch[k].event_id \notin SubmittedIds =>
                         Match(store, "Event", "eventId", batch[k].event_id) = {}
            /\ LinkedRels(store) = {})

\* the stream failed in a first attempt after a batch of two was committed
\* and a third Event was waiting: the committed Event has its node, the
\* waiting Event has none
C27_Witness ==
    /\ StreamFailed /\ attempt = 1
    /\ raised = "OSError"
    /\ batch_size = 2 /\ total_loaded = 2
    /\ Len(batch) = 1 /\ batch[1].event_id = E2
    /\ Match(store, "Event", "eventId", E1) # {}
    /\ Match(store, "Event", "eventId", batch[1].event_id) = {}

(***************************************************************************)
(* A statement that raises inside the per-Event try of _load_event_batch.  *)
(***************************************************************************)
\* the iteration for batch[txIdx] logs event_load_failed with a store error
FailsWithStoreError ==
    /\ AtEvent
    /\ logged' # logged
    /\ logged'[Len(logged')].error = "StoreError"

\* the working copy after the step is the one the statements before the
\* n-th left, and the n-th statement is one the Event issues
FailedAt(n) ==
    /\ Issued(batch[txIdx], Statements[n])
    /\ ~RunStatements(Tx, batch[txIdx], SubSeq(Statements, 1, n - 1), "none").raised
    /\ TxAfter = RunStatements(Tx, batch[txIdx], SubSeq(Statements, 1, n - 1), "none").store

\* the edges that leave the Event nodes of an identifier
EdgesFrom(s, event_id) ==
    { i \in 1..Len(s.rels) :
        /\ s.rels[i].type \in RoleRelTypes \cup { "OCCURRED_AT", "OF_TYPE" }
        /\ s.rels[i].from \in Match(s, "Event", "eventId", event_id) }

\* C28: when a statement of an Event's load raises, the transaction stays
\* open with exactly the writes of the statements completed before it; when
\* the Event node was created in that iteration, the statement that raised
\* is a later one (actor, location or event-type link) and the node stays
\* in the transaction together with the writes completed for it; for every
\* later statement the Event issues, a store error at that statement leaves
\* the per-Event try with the new Event node and the writes of the
\* statements before it; a commit that succeeds publishes the working copy
\* as it is, so there is no per-Event rollback.
C28_NoPerEventRollback ==
    /\ [][ FailsWithStoreError =>
             /\ \E n \in 1..Len(Statements) : FailedAt(n)
             /\ Len(openTx') = Len(openTx)
             /\ pc' = "tx" /\ txIdx' = txIdx + 1 ]_vars
    /\ [][ (FailsWithStoreError /\ Len(TxAfter.Event) > Len(Tx.Event)) =>
             /\ TxAfter.Event[Len(TxAfter.Event)].eventId = batch[txIdx].event_id
             /\ Prefix(Tx.Event, TxAfter.Event)
             /\ \E n \in 2..Len(Statements) : FailedAt(n) ]_vars
    /\ [](AtEvent =>
            \A n \in 2..Len(Statements) :
                ( /\ Issued(batch[txIdx], Statements[n])
                  /\ ~_create_event_node(Tx, batch[txIdx]).raised ) =>
                    LET r == TryLoadEvent(Tx, batch[txIdx], Statements[n])
                    IN /\ r.raised
                       /\ r.store = RunStatements(Tx, batch[txIdx],
                                                  SubSeq(Statements, 1, n - 1), "none").store
                       /\ Cardinality(Match(r.store, "Event", "eventId", batch[txIdx].event_id))
                            = Cardinality(Match(Tx, "Event", "eventId", batch[txIdx].event_id)) + 1)
    /\ [][ (pc = "tx" /\ txIdx > Len(batch) /\ pc' # "failed" /\ pc' # "tx") =>
             store' = Tx ]_vars

\* load_events has completed; the location statement of E1 met a store
\* error after its node and its initiator edge were written: the committed
\* Event has the initiator edge and no location edge
C28_Witness ==
    /\ pc = "done" /\ attempt = 1 /\ stmtFaults = 1
    /\ Cardinality(Match(store, "Event", "eventId", E1)) = 1
    /\ \E k \in 1..Len(file) :
          /\ Parsed(k) # None /\ Val(Parsed(k)).event_id = E1
          /\ LocationIssued(Val(Parsed(k))) /\ RoleIssued(Val(Parsed(k)), "initiator")
    /\ \A r \in EdgesFrom(store, E1) : store.rels[r].type = "INITIATED_BY"
    /\ EdgesFrom(store, E1) # {}
    /\ store.Location = <<>>

(***************************************************************************)
(* The CREATE of the Event node raises inside the per-Event try.           *)
(***************************************************************************)
\* the store refuses a second node for the identifier of the Event
CreateRefused(s, event) ==
    /\ "event_id_unique" \in s.constraints
    /\ Match(s, "Event", "eventId", event.event_id) # {}

\* C29: when the CREATE of the Event node raises (the uniqueness constraint
\* refuses the identifier, or the store fails at that statement), the
\* per-Event try ends there with the transaction as it was: no actor,
\* location or event-type statement runs for that Event; so the iteration
\* for an Event whose node is already stored (by an earlier attempt or an
\* earlier Event of the same identifier) only logs event_load_failed and
\* adds no node and no edge.
C29_FailedCreateSkipsLaterSteps ==
    /\ [](AtEvent =>
            /\ TryLoadEvent(Tx, batch[txIdx], "event") = Raised(Tx, "StoreError")
            /\ CreateRefused(Tx, batch[txIdx]) =>
                  \A n \in 2..Len(Statements) :
                      /\ TryLoadEvent(Tx, batch[txIdx], "none") = Raised(Tx, "ConstraintError")
                      /\ TryLoadEvent(Tx, batch[txIdx], Statements[n])
                             = Raised(Tx, "ConstraintError"))
    /\ [][ (AtEvent /\ CreateRefused(Tx, batch[txIdx])) =>
             /\ TxAfter = Tx
             /\ Len(logged') = Len(logged) + 1
             /\ logged'[Len(logged')].event_id = batch[txIdx].event_id
             /\ txIdx' = txIdx + 1 ]_vars
    /\ [][ (AtEvent /\ attempt >= 2 /\ CreateRefused(store, batch[txIdx])) =>
             /\ TxAfter.Actor = Tx.Actor
             /\ TxAfter.Location = Tx.Location
             /\ TxAfter.rels = Tx.rels ]_vars

\* a second attempt has gone through a batch of two Events of identifier
\* E1, the second of which names a victim: both CREATE statements were
\* refused, and the transaction holds what the first attempt committed,
\* without an Actor or an edge for the victim
C29_Witness ==
    /\ pc = "tx" /\ attempt = 2 /\ txIdx > Len(batch)
    /\ Len(batch) = 2 /\ batch[1].event_id = E1 /\ batch[2].event_id = E1
    /\ RoleIssued(batch[2], "victim")
    /\ Len(logged) = 2
    /\ logged[1].error = "ConstraintError" /\ logged[2].error = "ConstraintError"
    /\ Tx = store
    /\ Len(store.Actor) = 1
    /\ \A r \in 1..Len(store.rels) : store.rels[r].type # "VICTIMIZED"

(***************************************************************************)
(* The workflow graph of the agent (_build_graph) from its entry point to  *)
(* END.                                                                    *)
(***************************************************************************)
\* graph.invoke runs the workflow until END: a node that was reached is
\* called, and every call returns (an exception inside a node is caught
\* there)
SpecAgentFair == SpecAgent /\ WF_vars(NextAgent)

\* the nodes of the two paths through the graph, in order
ExecutePath == << "parse_intent", "generate_cypher", "execute_query", "reason" >>
ErrorPath == << "parse_intent", "generate_cypher", "handle_error" >>

====
